---- MODULE Spec2Model ----
(***************************************************************************)
(* A model of package ach (src/ach/convert.go): the conversion of an ACH   *)
(* file (file -> batches -> entries -> addenda) into seven flat tables     *)
(* (FromFile) and the reconstruction of a file from the possibly edited    *)
(* tables (ToFile).                                                        *)
(*                                                                         *)
(* Go strings are sequences of one-character tokens, so that               *)
(* strconv.Itoa, strconv.Atoi and strings.TrimSpace are computed and not   *)
(* assumed.  Records reached through pointers live in a heap, so that      *)
(* aliasing between the caller's file and the file ToFile returns is       *)
(* something the model can exhibit.                                        *)
(***************************************************************************)
EXTENDS Integers, Sequences, FiniteSets, TLC

VARIABLES heap, file, ts, phase, result, edits, calls, run

vars == <<heap, file, ts, phase, result, edits, calls, run>>

(***************************************************************************)
(* Bounds of the model.                                                    *)
(***************************************************************************)
MaxBatches == 2
MaxEntries == 2
MaxAddenda05 == 2
MaxIATBatches == 1
MaxEdits == 1
MaxCalls == 1
MaxRepeats == 2

NULL == 0

(***************************************************************************)
(* Strings.                                                                *)
(***************************************************************************)
Digits == <<"0", "1", "2", "3", "4", "5", "6", "7", "8", "9">>

DigitChar(d) == Digits[d + 1]

IsDigit(c) == \E i \in 1..10 : Digits[i] = c

DigitVal(c) == (CHOOSE i \in 1..10 : Digits[i] = c) - 1

RECURSIVE UItoa(_)
UItoa(n) == IF n < 10 THEN <<DigitChar(n)>>
            ELSE Append(UItoa(n \div 10), DigitChar(n % 10))

\* strconv.Itoa
Itoa(n) == IF n < 0 THEN <<"-">> \o UItoa(0 - n) ELSE UItoa(n)

RECURSIVE DigitsVal(_, _)
DigitsVal(s, acc) == IF s = <<>> THEN acc
                     ELSE DigitsVal(Tail(s), 10 * acc + DigitVal(Head(s)))

\* strconv.Atoi: an optional sign followed by one or more decimal digits.
Atoi(s) ==
    LET signed == s # <<>> /\ Head(s) \in {"-", "+"}
        body   == IF signed THEN Tail(s) ELSE s
        good   == body # <<>> /\ \A i \in 1..Len(body) : IsDigit(body[i])
        mag    == IF good THEN DigitsVal(body, 0) ELSE 0
    IN  [ok  |-> good,
         val |-> IF signed /\ Head(s) = "-" THEN 0 - mag ELSE mag]

RECURSIVE TrimLeft(_)
TrimLeft(s) == IF s # <<>> /\ Head(s) = " " THEN TrimLeft(Tail(s)) ELSE s

RECURSIVE TrimRight(_)
TrimRight(s) == IF s # <<>> /\ s[Len(s)] = " "
                THEN TrimRight(SubSeq(s, 1, Len(s) - 1)) ELSE s

\* strings.TrimSpace
TrimSpace(s) == TrimRight(TrimLeft(s))

Range(s) == {s[i] : i \in 1..Len(s)}

(***************************************************************************)
(* The heap.  An object is [kind, f, p]: f holds its scalar fields and p   *)
(* its pointer fields, each a sequence of addresses (a single pointer is a *)
(* sequence of length one; NULL is the nil pointer).  An address is an     *)
(* index into the heap.                                                    *)
(***************************************************************************)
PtrOrder == <<"Batches", "IATBatches", "Entries",
              "Addenda02", "Addenda05", "Addenda10", "Addenda11", "Addenda12",
              "Addenda13", "Addenda14", "Addenda15", "Addenda16", "Addenda17",
              "Addenda18", "Addenda98", "Addenda99", "Addenda98Refused",
              "Addenda99Dishonored", "Addenda99Contested">>

RECURSIVE SlotsFrom(_, _)
SlotsFrom(p, k) ==
    IF k > Len(PtrOrder) THEN <<>>
    ELSE LET n == PtrOrder[k]
         IN  (IF n \in DOMAIN p THEN [i \in 1..Len(p[n]) |-> <<n, i>>] ELSE <<>>)
             \o SlotsFrom(p, k + 1)

\* The value of a nil pointer.
NilTree == [kind |-> "nil"]

\* The value of the object at address a, its pointers followed to the leaves.
RECURSIVE Val(_, _)
Val(h, a) ==
    IF a = NULL THEN NilTree
    ELSE LET o == h[a]
         IN  [kind |-> o.kind, f |-> o.f,
              p |-> [n \in DOMAIN o.p |->
                        [i \in 1..Len(o.p[n]) |-> Val(h, o.p[n][i])]]]

RECURSIVE SumSeq(_)
SumSeq(s) == IF s = <<>> THEN 0 ELSE Head(s) + SumSeq(Tail(s))

RECURSIVE Flatten(_)
Flatten(ss) == IF ss = <<>> THEN <<>> ELSE Head(ss) \o Flatten(Tail(ss))

\* Fresh objects for the tree t at the addresses after base, children first:
\* the record of t itself is the last one.  done[k] is the work after the
\* first k pointer slots: the objects made and the pointers of t set so far.
RECURSIVE AllocAt(_, _)
AllocAt(t, base) ==
    IF DOMAIN t.p = {} THEN <<t>>
    ELSE
    LET slots == SlotsFrom(t.p, 1)
        done[k \in 0..Len(slots)] ==
            IF k = 0
            THEN [objs |-> <<>>,
                  p |-> [n \in DOMAIN t.p |-> [i \in 1..Len(t.p[n]) |-> NULL]]]
            ELSE LET prev == done[k - 1]
                     n    == slots[k][1]
                     i    == slots[k][2]
                     sub  == AllocAt(t.p[n][i], base + Len(prev.objs))
                 IN  IF t.p[n][i].kind = "nil" THEN prev
                     ELSE [objs |-> prev.objs \o sub,
                           p |-> [prev.p EXCEPT ![n][i] = base + Len(prev.objs) + Len(sub)]]
        all == done[Len(slots)]
    IN  Append(all.objs, [kind |-> t.kind, f |-> t.f, p |-> all.p])

\* The heap h with fresh objects for the tree t; [heap, addr].
Alloc(h, t) ==
    LET objs == AllocAt(t, Len(h))
    IN  [heap |-> h \o objs, addr |-> Len(h) + Len(objs)]

\* A copy that shares every record below the file struct with its source.
ShallowCopy(h, a) == [heap |-> Append(h, h[a]), addr |-> Len(h) + 1]

\* deepcopy.Copy(&newFile, ts.originalFile): every record reachable from the
\* source is copied into a fresh one.
DeepCopy(h, a) == Alloc(h, Val(h, a))

\* The single pointer held in field n of object o.
Ptr(o, n) == o.p[n][1]

(***************************************************************************)
(* The records of github.com/moov-io/ach that convert.go reads and writes, *)
(* as trees.  A text field holds its own name followed by the digits that  *)
(* identify the record, and a trailing blank when the file is padded, so   *)
(* that every field of every record has a value of its own.                *)
(***************************************************************************)
Obj(kind, f, p) == [kind |-> kind, f |-> f, p |-> p]

Text(n, id, pad) == <<n>> \o id \o (IF pad THEN <<" ">> ELSE <<>>)

TextRec(names, id, pad) == [n \in names |-> Text(n, id, pad)]

\* A pointer field: nil, or one record.
OptT(present, t) == IF present THEN <<t>> ELSE <<NilTree>>

FileHeaderFields == {"ImmediateDestination", "ImmediateOrigin", "FileCreationDate",
                     "FileCreationTime", "FileIDModifier", "ImmediateDestinationName",
                     "ImmediateOriginName", "ReferenceCode"}

BatchHeaderText == {"CompanyName", "CompanyDiscretionaryData", "CompanyIdentification",
                    "StandardEntryClassCode", "CompanyEntryDescription",
                    "CompanyDescriptiveDate", "EffectiveEntryDate", "ODFIIdentification"}

EntryText == {"CheckDigit", "DFIAccountNumber", "IdentificationNumber",
              "IndividualName", "DiscretionaryData", "TraceNumber", "Category"}

Addenda02Text == {"TraceNumber", "ReferenceInformationOne", "ReferenceInformationTwo",
                  "TerminalIdentificationCode", "TransactionSerialNumber",
                  "TransactionDate", "AuthorizationCodeOrExpireDate",
                  "TerminalLocation", "TerminalCity", "TerminalState"}

Addenda98Text == {"OriginalTrace", "OriginalDFI", "CorrectedData", "ChangeCode",
                  "TraceNumber"}

Addenda99Text == {"OriginalTrace", "OriginalDFI", "ReturnCode", "AddendaInformation",
                  "TraceNumber"}

Addenda98RefusedText == Addenda98Text \cup {"RefusedChangeCode", "TraceSequenceNumber"}

Addenda99DishonoredText == {"AddendaInformation", "TraceNumber",
                            "DishonoredReturnReasonCode", "OriginalEntryTraceNumber",
                            "OriginalReceivingDFIIdentification", "ReturnTraceNumber",
                            "ReturnSettlementDate", "ReturnReasonCode"}

Addenda99ContestedText == {"TraceNumber", "OriginalEntryTraceNumber",
                           "OriginalReceivingDFIIdentification", "ReturnTraceNumber",
                           "ReturnSettlementDate", "ReturnReasonCode",
                           "ContestedReturnCode", "DateOriginalEntryReturned",
                           "OriginalSettlementDate", "DishonoredReturnTraceNumber",
                           "DishonoredReturnSettlementDate",
                           "DishonoredReturnReasonCode"}

IATBatchHeaderText == {"IATIndicator", "ForeignExchangeIndicator",
                       "ForeignExchangeReference", "ISODestinationCountryCode",
                       "OriginatorIdentification", "StandardEntryClassCode",
                       "CompanyEntryDescription", "ISOOriginatingCurrencyCode",
                       "ISODestinationCurrencyCode", "EffectiveEntryDate",
                       "ODFIIdentification"}

IATEntryText == {"CheckDigit", "DFIAccountNumber", "OFACScreeningIndicator",
                 "SecondaryOFACScreeningIndicator", "TraceNumber", "Category"}

\* The text fields of the IAT addenda 10 to 18, by type code.
IATAddendaText(code) ==
    CASE code = "10" -> {"TransactionTypeCode", "ForeignTraceNumber", "Name"}
      [] code = "11" -> {"OriginatorName", "OriginatorStreetAddress"}
      [] code = "12" -> {"OriginatorCityStateProvince", "OriginatorCountryPostalCode"}
      [] code = "13" -> {"ODFIName", "ODFIIDNumberQualifier", "ODFIIdentification",
                         "ODFIBranchCountryCode"}
      [] code = "14" -> {"RDFIName", "RDFIIDNumberQualifier", "RDFIIdentification",
                         "RDFIBranchCountryCode"}
      [] code = "15" -> {"ReceiverIDNumber", "ReceiverStreetAddress"}
      [] code = "16" -> {"ReceiverCityStateProvince", "ReceiverCountryPostalCode"}
      [] code = "17" -> {"PaymentRelatedInformation"}
      [] code = "18" -> {"ForeignCorrespondentBankName",
                         "ForeignCorrespondentBankIDNumberQualifier",
                         "ForeignCorrespondentBankIDNumber",
                         "ForeignCorrespondentBankBranchCountryCode"}

\* The type code of a record, as the two characters the file format uses.
TypeCodeOf(d1, d2) == "TypeCode" :> <<d1, d2>>

MkAddenda02(id, pad) ==
    Obj("Addenda02", TypeCodeOf("0", "2") @@ TextRec(Addenda02Text, id, pad), <<>>)

MkAddenda05(id, k, pad) ==
    Obj("Addenda05",
        TypeCodeOf("0", "5")
          @@ TextRec({"PaymentRelatedInformation"}, id \o <<DigitChar(k)>>, pad)
          @@ [SequenceNumber |-> k + 1, EntryDetailSequenceNumber |-> 1],
        <<>>)

MkAddenda98(id, pad) ==
    Obj("Addenda98", TypeCodeOf("9", "8") @@ TextRec(Addenda98Text, id, pad), <<>>)

MkAddenda99(id, pad) ==
    Obj("Addenda99", TypeCodeOf("9", "9") @@ TextRec(Addenda99Text, id, pad), <<>>)

MkAddenda98Refused(id, pad) ==
    Obj("Addenda98Refused",
        TypeCodeOf("9", "8") @@ TextRec(Addenda98RefusedText, id, pad), <<>>)

MkAddenda99Dishonored(id, pad) ==
    Obj("Addenda99Dishonored",
        TypeCodeOf("9", "9") @@ TextRec(Addenda99DishonoredText, id, pad), <<>>)

MkAddenda99Contested(id, pad) ==
    Obj("Addenda99Contested",
        TypeCodeOf("9", "9") @@ TextRec(Addenda99ContestedText, id, pad), <<>>)

\* The second character of the type codes "10" to "18".
IATDigit(code) ==
    CASE code = "10" -> "0" [] code = "11" -> "1" [] code = "12" -> "2"
      [] code = "13" -> "3" [] code = "14" -> "4" [] code = "15" -> "5"
      [] code = "16" -> "6" [] code = "17" -> "7" [] code = "18" -> "8"

\* An IAT addenda 10 to 18; k numbers the occurrences of 17 and 18.
MkIATAddenda(code, id, k, pad) ==
    Obj("Addenda" \o code,
        TypeCodeOf("1", IATDigit(code)) @@ TextRec(IATAddendaText(code), id \o <<DigitChar(k)>>, pad)
          @@ [EntryDetailSequenceNumber |-> 1]
          @@ (IF code = "10" THEN [ForeignPaymentAmount |-> 7] ELSE <<>>)
          @@ (IF code \in {"17", "18"} THEN [SequenceNumber |-> k + 1] ELSE <<>>),
        <<>>)


(***************************************************************************)
(* The files the model starts from.  A shape fixes the number of batches,  *)
(* the entries of the first batch (every later batch has one entry), the   *)
(* addenda variants the first entry of each batch carries, the number of   *)
(* occurrences of each repeatable variant (05, 17, 18), whether text       *)
(* fields are padded, the number of IAT batches and whether the file       *)
(* header is one File.Create accepts.                                      *)
(***************************************************************************)
StdVariants == {"02", "98", "99", "98_refused", "99_dishonored", "99_contested"}

IATSingles == <<"10", "11", "12", "13", "14", "15", "16">>

VariantSets == {{}, {"02"}, {"99_dishonored"}, StdVariants}

\* The addenda 10 to 16 an IAT entry carries: all of them, or 10, 12 and 15.
IATPresent(full) == IF full THEN Range(IATSingles) ELSE {"10", "12", "15"}

IsDebitCode(tc) == tc % 10 \in 5..9

\* The number of addenda records attached to the entry tree e.
AddendaCountT(e) ==
    SumSeq([k \in 1..Len(PtrOrder) |->
              IF PtrOrder[k] \in DOMAIN e.p
              THEN Cardinality({i \in 1..Len(e.p[PtrOrder[k]]) :
                                   e.p[PtrOrder[k]][i].kind # "nil"})
              ELSE 0])

\* The control totals Batch.Create derives from the entry trees es.
BatchTotals(es) ==
    [EntryAddendaCount |-> SumSeq([i \in 1..Len(es) |-> 1 + AddendaCountT(es[i])]),
     EntryHash |->
        SumSeq([i \in 1..Len(es) |->
                   LET r == Atoi(es[i].f.RDFIIdentification)
                   IN  IF r.ok THEN r.val ELSE 0]),
     TotalDebitEntryDollarAmount |->
        SumSeq([i \in 1..Len(es) |->
                   IF IsDebitCode(es[i].f.TransactionCode) THEN es[i].f.Amount ELSE 0]),
     TotalCreditEntryDollarAmount |->
        SumSeq([i \in 1..Len(es) |->
                   IF IsDebitCode(es[i].f.TransactionCode) THEN 0 ELSE es[i].f.Amount])]

MkEntry(b, e, vs, rep, pad) ==
    LET id == <<DigitChar(b), DigitChar(e)>>
    IN  Obj("EntryDetail",
            TextRec(EntryText, id, pad)
              @@ [TransactionCode |-> IF e % 2 = 0 THEN 27 ELSE 22,
                  RDFIIdentification |-> <<"4", DigitChar(b), DigitChar(e)>>,
                  Amount |-> 100 * (b + 1) + e,
                  AddendaRecordIndicator |-> IF vs = {} /\ rep = 0 THEN 0 ELSE 1],
            [Addenda02 |-> OptT("02" \in vs, MkAddenda02(id, pad)),
             Addenda05 |-> [k \in 1..rep |-> MkAddenda05(id, k - 1, pad)],
             Addenda98 |-> OptT("98" \in vs, MkAddenda98(id, pad)),
             Addenda99 |-> OptT("99" \in vs, MkAddenda99(id, pad)),
             Addenda98Refused |-> OptT("98_refused" \in vs, MkAddenda98Refused(id, pad)),
             Addenda99Dishonored |->
                 OptT("99_dishonored" \in vs, MkAddenda99Dishonored(id, pad)),
             Addenda99Contested |->
                 OptT("99_contested" \in vs, MkAddenda99Contested(id, pad))])

MkBatch(b, ne, vs, rep, pad) ==
    LET es == [e \in 1..ne |-> MkEntry(b, e - 1, IF e = 1 THEN vs ELSE {}, rep, pad)]
    IN  Obj("Batch",
            TextRec(BatchHeaderText, <<DigitChar(b)>>, pad)
              @@ [ServiceClassCode |-> 200, OriginatorStatusCode |-> 1,
                  BatchNumber |-> b + 1, ControlBatchNumber |-> b + 1]
              @@ BatchTotals(es),
            [Entries |-> es])

MkIATEntry(b, e, full, rep, pad) ==
    LET id == <<"i", DigitChar(b), DigitChar(e)>>
        opt(code) == OptT(code \in IATPresent(full), MkIATAddenda(code, id, 0, pad))
    IN  Obj("IATEntryDetail",
            TextRec(IATEntryText, id, pad)
              @@ [TransactionCode |-> 22,
                  RDFIIdentification |-> <<"5", DigitChar(b), DigitChar(e)>>,
                  AddendaRecords |-> Cardinality(IATPresent(full)) + 2 * rep,
                  Amount |-> 500 + 10 * b + e,
                  AddendaRecordIndicator |-> 1],
            [Addenda10 |-> opt("10"), Addenda11 |-> opt("11"), Addenda12 |-> opt("12"),
             Addenda13 |-> opt("13"), Addenda14 |-> opt("14"), Addenda15 |-> opt("15"),
             Addenda16 |-> opt("16"),
             Addenda17 |-> [k \in 1..rep |-> MkIATAddenda("17", id, k - 1, pad)],
             Addenda18 |-> [k \in 1..rep |-> MkIATAddenda("18", id, k - 1, pad)],
             Addenda98 |-> OptT(full, MkAddenda98(id, pad)),
             Addenda99 |-> OptT(full, MkAddenda99(id, pad))])

MkIATBatch(b, full, rep, pad) ==
    LET es == <<MkIATEntry(b, 0, full, rep, pad)>>
    IN  Obj("IATBatch",
            TextRec(IATBatchHeaderText, <<"i", DigitChar(b)>>, pad)
              @@ [ServiceClassCode |-> 220, ForeignExchangeReferenceIndicator |-> 3,
                  BatchNumber |-> b + 1, ControlBatchNumber |-> b + 1]
              @@ BatchTotals(es),
            [Entries |-> es])

\* The file control File.Create derives from the batch controls.
FileTotals(bs) ==
    LET recs == 2 + SumSeq([i \in 1..Len(bs) |-> 2 + bs[i].f.EntryAddendaCount])
    IN  [BatchCount |-> Len(bs),
         BlockCount |-> (recs + 9) \div 10,
         FileEntryAddendaCount |-> SumSeq([i \in 1..Len(bs) |-> bs[i].f.EntryAddendaCount]),
         FileEntryHash |-> SumSeq([i \in 1..Len(bs) |-> bs[i].f.EntryHash]),
         TotalDebitEntryDollarAmountInFile |->
             SumSeq([i \in 1..Len(bs) |-> bs[i].f.TotalDebitEntryDollarAmount]),
         TotalCreditEntryDollarAmountInFile |->
             SumSeq([i \in 1..Len(bs) |-> bs[i].f.TotalCreditEntryDollarAmount])]

MkFile(s) ==
    LET bs  == [b \in 1..s.nb |->
                   MkBatch(b - 1, IF b = 1 THEN s.ne ELSE 1, s.vs, s.rep, s.pad)]
        ibs == [b \in 1..s.iat |-> MkIATBatch(s.nb + b - 1, s.vs = StdVariants, s.rep, s.pad)]
    IN  Obj("File",
            TextRec(FileHeaderFields \ (IF s.hv THEN {} ELSE {"ImmediateDestination"}),
                    <<>>, s.pad)
              @@ [ImmediateDestination |-> <<>>]
              @@ FileTotals(bs \o ibs),
            [Batches |-> bs, IATBatches |-> ibs])

Shapes ==
    {s \in [nb : 0..MaxBatches, ne : 0..MaxEntries, vs : VariantSets,
            rep : 0..MaxAddenda05, pad : BOOLEAN, iat : 0..MaxIATBatches,
            hv : BOOLEAN] :
        \* no batch at all: one shape
        \/ s.nb = 0 /\ s.iat = 0 /\ s.ne = 0 /\ s.vs = {} /\ s.rep = 0 /\ ~s.pad /\ s.hv
        \* a header File.Create rejects: one shape
        \/ s.nb = 1 /\ s.iat = 0 /\ s.ne = 1 /\ s.vs = {} /\ s.rep = 0 /\ ~s.pad /\ ~s.hv
        \* plain files of several batches and entries
        \/ s.nb >= 1 /\ s.iat = 0 /\ s.vs = {} /\ s.rep <= 1 /\ ~s.pad /\ s.hv
        \* one entry with every mix of addenda, padded or not
        \/ s.nb = 1 /\ s.iat = 0 /\ s.ne = 1 /\ s.hv
        \* files with IAT batches
        \/ s.iat >= 1 /\ s.ne = s.nb /\ s.nb <= 1 /\ s.vs \in {{}, StdVariants}
           /\ ~s.pad /\ s.hv}


(***************************************************************************)
(* FromFile: the tables.  A table is [Headers, Records, ColumnTypes]; a    *)
(* cell is a string.  Column positions are zero-based, as in the source.   *)
(***************************************************************************)
TEXT == "text"
INTEGER == "integer"

Table(headers, records, types) ==
    [Headers |-> headers, Records |-> records, ColumnTypes |-> types]

\* A table the TableSet does not hold (a nil *fileparser.TableData).
NoTable == [Headers |-> <<>>, Records |-> <<>>, ColumnTypes |-> <<>>, absent |-> TRUE]

Present(t) == "absent" \notin DOMAIN t

\* The value a cell gets from field fld of the record o.
Conv(o, fld, conv) ==
    CASE conv = "raw"  -> o.f[fld]
      [] conv = "trim" -> TrimSpace(o.f[fld])
      [] conv = "itoa" -> Itoa(o.f[fld])
      [] conv = "zero" -> <<"0">>

\* make([]string, n) with the cells that spec names assigned from o.
RECURSIVE SetCells(_, _, _)
SetCells(rec, o, spec) ==
    IF spec = <<>> THEN rec
    ELSE LET c == Head(spec)
         IN  SetCells([rec EXCEPT ![c[1] + 1] = Conv(o, c[2], c[3])], o, Tail(spec))

FileHeaderHeaders ==
    <<"immediate_destination", "immediate_origin", "file_creation_date",
      "file_creation_time", "file_id_modifier", "immediate_destination_name",
      "immediate_origin_name", "reference_code">>

FileHeaderCells ==
    <<<<0, "ImmediateDestination", "raw">>, <<1, "ImmediateOrigin", "raw">>,
      <<2, "FileCreationDate", "raw">>, <<3, "FileCreationTime", "raw">>,
      <<4, "FileIDModifier", "raw">>, <<5, "ImmediateDestinationName", "raw">>,
      <<6, "ImmediateOriginName", "raw">>, <<7, "ReferenceCode", "raw">>>>

EmptyRecord(n) == [i \in 1..n |-> <<>>]

FileHeaderColumnTypes == <<TEXT, TEXT, TEXT, TEXT, TEXT, TEXT, TEXT, TEXT>>

convertFileHeader(f) ==
    Table(FileHeaderHeaders,
          <<SetCells(EmptyRecord(Len(FileHeaderHeaders)), f, FileHeaderCells)>>,
          FileHeaderColumnTypes)

BatchHeaders ==
    <<"batch_index", "service_class_code", "company_name", "company_discretionary_data",
      "company_identification", "standard_entry_class_code", "company_entry_description",
      "company_descriptive_date", "effective_entry_date", "originator_status_code",
      "odfi_identification", "batch_number", "entry_addenda_count", "entry_hash",
      "total_debit", "total_credit">>

BatchColumnTypes ==
    <<INTEGER, INTEGER, TEXT, TEXT, TEXT, TEXT, TEXT, TEXT, TEXT, INTEGER, TEXT,
      INTEGER, INTEGER, INTEGER, INTEGER, INTEGER>>

BatchCells ==
    <<<<1, "ServiceClassCode", "itoa">>, <<2, "CompanyName", "trim">>,
      <<3, "CompanyDiscretionaryData", "trim">>, <<4, "CompanyIdentification", "trim">>,
      <<5, "StandardEntryClassCode", "raw">>, <<6, "CompanyEntryDescription", "trim">>,
      <<7, "CompanyDescriptiveDate", "trim">>, <<8, "EffectiveEntryDate", "raw">>,
      <<9, "OriginatorStatusCode", "itoa">>, <<10, "ODFIIdentification", "raw">>,
      <<11, "BatchNumber", "itoa">>, <<12, "EntryAddendaCount", "itoa">>,
      <<13, "EntryHash", "itoa">>, <<14, "TotalDebitEntryDollarAmount", "itoa">>,
      <<15, "TotalCreditEntryDollarAmount", "itoa">>>>

\* The record of one batch, or one entry: the index cells, then the fields.
IndexedRecord(n, idx, o, cells) ==
    SetCells([i \in 1..n |-> IF i <= Len(idx) THEN Itoa(idx[i]) ELSE <<>>], o, cells)

convertBatches(f) ==
    Table(BatchHeaders,
          [i \in 1..Len(f.p.Batches) |->
              IndexedRecord(Len(BatchHeaders), <<i - 1>>, f.p.Batches[i], BatchCells)],
          BatchColumnTypes)

EntryHeaders ==
    <<"batch_index", "entry_index", "transaction_code", "rdfi_identification",
      "check_digit", "dfi_account_number", "amount", "identification_number",
      "individual_name", "discretionary_data", "addenda_record_indicator",
      "trace_number", "category">>

EntryColumnTypes ==
    <<INTEGER, INTEGER, INTEGER, TEXT, TEXT, TEXT, INTEGER, TEXT, TEXT, TEXT, INTEGER,
      TEXT, TEXT>>

EntryCells ==
    <<<<2, "TransactionCode", "itoa">>, <<3, "RDFIIdentification", "raw">>,
      <<4, "CheckDigit", "raw">>, <<5, "DFIAccountNumber", "trim">>,
      <<6, "Amount", "itoa">>, <<7, "IdentificationNumber", "trim">>,
      <<8, "IndividualName", "trim">>, <<9, "DiscretionaryData", "trim">>,
      <<10, "AddendaRecordIndicator", "itoa">>, <<11, "TraceNumber", "raw">>,
      <<12, "Category", "raw">>>>

\* An EntryRecords whose entry_index counts on through the file instead of
\* starting again in each batch.
EntryRecordsNumberedThrough(bs, n, cells) ==
    LET before(b) == SumSeq([k \in 1..(b - 1) |-> Len(bs[k].p.Entries)])
    IN  Flatten([b \in 1..Len(bs) |->
                   [e \in 1..Len(bs[b].p.Entries) |->
                       IndexedRecord(n, <<b - 1, before(b) + e - 1>>, bs[b].p.Entries[e],
                                     cells)]])

\* One record per entry, batch by batch; bs are the batches (standard or IAT).
EntryRecords(bs, n, cells) ==
    Flatten([b \in 1..Len(bs) |->
               [e \in 1..Len(bs[b].p.Entries) |->
                   IndexedRecord(n, <<b - 1, e - 1>>, bs[b].p.Entries[e], cells)]])

convertEntries(f) ==
    Table(EntryHeaders, EntryRecords(f.p.Batches, Len(EntryHeaders), EntryCells),
          EntryColumnTypes)


\* The addenda_type tags, as cells.
TagCell(tag) ==
    CASE tag = "02" -> <<"0", "2">>
      [] tag = "05" -> <<"0", "5">>
      [] tag = "98" -> <<"9", "8">>
      [] tag = "99" -> <<"9", "9">>
      [] tag = "98_refused" -> <<"9", "8", "_refused">>
      [] tag = "99_dishonored" -> <<"9", "9", "_dishonored">>
      [] tag = "99_contested" -> <<"9", "9", "_contested">>
      [] OTHER -> <<"1", IATDigit(tag)>>

AddendaHeaders ==
    <<"batch_index", "entry_index", "addenda_index", "addenda_type", "type_code",
      "payment_related_information", "sequence_number", "entry_detail_sequence_number",
      "original_trace", "original_rdfi", "corrected_data", "change_code", "return_code",
      "addenda_information", "trace_number", "reference_information_one",
      "reference_information_two", "terminal_identification", "transaction_serial",
      "transaction_date", "authorization_code", "terminal_location", "terminal_city",
      "terminal_state", "refused_change_code", "trace_sequence_number",
      "dishonored_return_reason_code", "original_entry_trace_number",
      "original_receiving_dfi_identification", "return_trace_number",
      "return_settlement_date", "return_reason_code", "contested_return_code",
      "date_original_entry_returned", "original_settlement_date",
      "dishonored_return_trace_number", "dishonored_return_settlement_date",
      "dishonored_return_reason_code">>

\* Column types that make every column of the addenda table a text column.
AddendaColumnTypesAllText == [c \in 1..Len(AddendaHeaders) |-> TEXT]

AddendaColumnTypes ==
    <<INTEGER, INTEGER, INTEGER, TEXT, TEXT, TEXT, INTEGER, INTEGER,
      TEXT, TEXT, TEXT, TEXT, TEXT, TEXT, TEXT,
      TEXT, TEXT, TEXT, TEXT, TEXT, TEXT, TEXT, TEXT, TEXT,
      TEXT, TEXT,
      TEXT, TEXT, TEXT, TEXT, TEXT, TEXT,
      TEXT, TEXT, TEXT, TEXT, TEXT, TEXT>>

\* The cells convertAddenda assigns for each variant, besides the four it
\* assigns for every variant (the three indices and the tag).
AddendaCells(tag) ==
    CASE tag = "02" ->
           <<<<4, "TypeCode", "raw">>, <<6, "", "zero">>, <<7, "", "zero">>,
             <<14, "TraceNumber", "raw">>, <<15, "ReferenceInformationOne", "trim">>,
             <<16, "ReferenceInformationTwo", "trim">>,
             <<17, "TerminalIdentificationCode", "trim">>,
             <<18, "TransactionSerialNumber", "trim">>, <<19, "TransactionDate", "trim">>,
             <<20, "AuthorizationCodeOrExpireDate", "trim">>,
             <<21, "TerminalLocation", "trim">>, <<22, "TerminalCity", "trim">>,
             <<23, "TerminalState", "trim">>>>
      [] tag = "05" ->
           <<<<4, "TypeCode", "raw">>, <<5, "PaymentRelatedInformation", "trim">>,
             <<6, "SequenceNumber", "itoa">>, <<7, "EntryDetailSequenceNumber", "itoa">>>>
      [] tag = "98" ->
           <<<<4, "TypeCode", "raw">>, <<6, "", "zero">>, <<7, "", "zero">>,
             <<8, "OriginalTrace", "raw">>, <<9, "OriginalDFI", "raw">>,
             <<10, "CorrectedData", "trim">>, <<11, "ChangeCode", "raw">>,
             <<14, "TraceNumber", "raw">>>>
      [] tag = "99" ->
           <<<<4, "TypeCode", "raw">>, <<6, "", "zero">>, <<7, "", "zero">>,
             <<8, "OriginalTrace", "raw">>, <<9, "OriginalDFI", "raw">>,
             <<12, "ReturnCode", "raw">>, <<13, "AddendaInformation", "trim">>,
             <<14, "TraceNumber", "raw">>>>
      [] tag = "98_refused" ->
           <<<<4, "TypeCode", "raw">>, <<6, "", "zero">>, <<7, "", "zero">>,
             <<8, "OriginalTrace", "raw">>, <<9, "OriginalDFI", "raw">>,
             <<10, "CorrectedData", "trim">>, <<11, "ChangeCode", "raw">>,
             <<14, "TraceNumber", "raw">>, <<24, "RefusedChangeCode", "raw">>,
             <<25, "TraceSequenceNumber", "raw">>>>
      [] tag = "99_dishonored" ->
           <<<<4, "TypeCode", "raw">>, <<6, "", "zero">>, <<7, "", "zero">>,
             <<13, "AddendaInformation", "trim">>, <<14, "TraceNumber", "raw">>,
             <<26, "DishonoredReturnReasonCode", "raw">>,
             <<27, "OriginalEntryTraceNumber", "raw">>,
             <<28, "OriginalReceivingDFIIdentification", "raw">>,
             <<29, "ReturnTraceNumber", "raw">>, <<30, "ReturnSettlementDate", "raw">>,
             <<31, "ReturnReasonCode", "raw">>>>
      [] tag = "99_contested" ->
           <<<<4, "TypeCode", "raw">>, <<6, "", "zero">>, <<7, "", "zero">>,
             <<14, "TraceNumber", "raw">>, <<27, "OriginalEntryTraceNumber", "raw">>,
             <<28, "OriginalReceivingDFIIdentification", "raw">>,
             <<29, "ReturnTraceNumber", "raw">>, <<30, "ReturnSettlementDate", "raw">>,
             <<31, "ReturnReasonCode", "raw">>, <<32, "ContestedReturnCode", "raw">>,
             <<33, "DateOriginalEntryReturned", "raw">>,
             <<34, "OriginalSettlementDate", "raw">>,
             <<35, "DishonoredReturnTraceNumber", "raw">>,
             <<36, "DishonoredReturnSettlementDate", "raw">>,
             <<37, "DishonoredReturnReasonCode", "raw">>>>

\* The addenda of a standard entry in the order convertAddenda visits them,
\* each with its tag; nil pointers included.
StdAddendaOrder(e) ==
    <<<<"02", Ptr(e, "Addenda02")>>>>
      \o [k \in 1..Len(e.p.Addenda05) |-> <<"05", e.p.Addenda05[k]>>]
      \o <<<<"98", Ptr(e, "Addenda98")>>, <<"99", Ptr(e, "Addenda99")>>,
           <<"98_refused", Ptr(e, "Addenda98Refused")>>,
           <<"99_dishonored", Ptr(e, "Addenda99Dishonored")>>,
           <<"99_contested", Ptr(e, "Addenda99Contested")>>>>

IATBatchHeaders ==
    <<"batch_index", "service_class_code", "iat_indicator", "foreign_exchange_indicator",
      "foreign_exchange_reference_indicator", "foreign_exchange_reference",
      "iso_destination_country_code", "originator_identification",
      "standard_entry_class_code", "company_entry_description",
      "iso_originating_currency_code", "iso_destination_currency_code",
      "effective_entry_date", "odfi_identification", "batch_number">>

IATBatchColumnTypes ==
    <<INTEGER, INTEGER, TEXT, TEXT, INTEGER, TEXT, TEXT, TEXT, TEXT, TEXT, TEXT, TEXT,
      TEXT, TEXT, INTEGER>>

IATBatchCells ==
    <<<<1, "ServiceClassCode", "itoa">>, <<2, "IATIndicator", "trim">>,
      <<3, "ForeignExchangeIndicator", "trim">>,
      <<4, "ForeignExchangeReferenceIndicator", "itoa">>,
      <<5, "ForeignExchangeReference", "trim">>,
      <<6, "ISODestinationCountryCode", "trim">>,
      <<7, "OriginatorIdentification", "trim">>, <<8, "StandardEntryClassCode", "raw">>,
      <<9, "CompanyEntryDescription", "trim">>,
      <<10, "ISOOriginatingCurrencyCode", "trim">>,
      <<11, "ISODestinationCurrencyCode", "trim">>, <<12, "EffectiveEntryDate", "raw">>,
      <<13, "ODFIIdentification", "raw">>, <<14, "BatchNumber", "itoa">>>>

convertIATBatches(f) ==
    Table(IATBatchHeaders,
          [i \in 1..Len(f.p.IATBatches) |->
              IndexedRecord(Len(IATBatchHeaders), <<i - 1>>, f.p.IATBatches[i],
                            IATBatchCells)],
          IATBatchColumnTypes)

IATEntryHeaders ==
    <<"batch_index", "entry_index", "transaction_code", "rdfi_identification",
      "check_digit", "addenda_records", "amount", "dfi_account_number",
      "ofac_screening_indicator", "secondary_ofac_screening_indicator",
      "addenda_record_indicator", "trace_number", "category">>

IATEntryColumnTypes ==
    <<INTEGER, INTEGER, INTEGER, TEXT, TEXT, INTEGER, INTEGER, TEXT, TEXT, TEXT, INTEGER,
      TEXT, TEXT>>

IATEntryCells ==
    <<<<2, "TransactionCode", "itoa">>, <<3, "RDFIIdentification", "raw">>,
      <<4, "CheckDigit", "raw">>, <<5, "AddendaRecords", "itoa">>,
      <<6, "Amount", "itoa">>, <<7, "DFIAccountNumber", "trim">>,
      <<8, "OFACScreeningIndicator", "trim">>,
      <<9, "SecondaryOFACScreeningIndicator", "trim">>,
      <<10, "AddendaRecordIndicator", "itoa">>, <<11, "TraceNumber", "raw">>,
      <<12, "Category", "raw">>>>

convertIATEntries(f) ==
    Table(IATEntryHeaders,
          EntryRecords(f.p.IATBatches, Len(IATEntryHeaders), IATEntryCells),
          IATEntryColumnTypes)

IATAddendaHeaders ==
    <<"batch_index", "entry_index", "addenda_index", "addenda_type", "type_code",
      "entry_detail_sequence_number", "transaction_type_code", "foreign_payment_amount",
      "foreign_trace_number", "receiving_company_name", "originator_name",
      "originator_street_address", "originator_city_state_province",
      "originator_country_postal_code", "odfi_name",
      "odfi_identification_number_qualifier", "odfi_identification",
      "odfi_branch_country_code", "rdfi_name", "rdfi_identification_number_qualifier",
      "rdfi_identification", "rdfi_branch_country_code",
      "receiver_identification_number", "receiver_street_address",
      "receiver_city_state_province", "receiver_country_postal_code",
      "payment_related_information", "sequence_number",
      "foreign_correspondent_bank_name",
      "foreign_correspondent_bank_id_number_qualifier",
      "foreign_correspondent_bank_id_number",
      "foreign_correspondent_bank_branch_country_code", "original_trace",
      "original_rdfi", "corrected_data", "change_code", "return_code",
      "addenda_information", "trace_number">>

IATAddendaColumnTypes ==
    [i \in 1..Len(IATAddendaHeaders) |->
        IF IATAddendaHeaders[i] \in {"batch_index", "entry_index", "addenda_index",
                                     "entry_detail_sequence_number", "sequence_number",
                                     "foreign_payment_amount"}
        THEN INTEGER ELSE TEXT]

\* The cells convertIATAddenda assigns for each variant after makeRecord.
IATAddendaCells(tag) ==
    CASE tag = "10" ->
           <<<<4, "TypeCode", "raw">>, <<5, "EntryDetailSequenceNumber", "itoa">>,
             <<6, "TransactionTypeCode", "raw">>, <<7, "ForeignPaymentAmount", "itoa">>,
             <<8, "ForeignTraceNumber", "trim">>, <<9, "Name", "trim">>>>
      [] tag = "11" ->
           <<<<4, "TypeCode", "raw">>, <<5, "EntryDetailSequenceNumber", "itoa">>,
             <<10, "OriginatorName", "trim">>, <<11, "OriginatorStreetAddress", "trim">>>>
      [] tag = "12" ->
           <<<<4, "TypeCode", "raw">>, <<5, "EntryDetailSequenceNumber", "itoa">>,
             <<12, "OriginatorCityStateProvince", "trim">>,
             <<13, "OriginatorCountryPostalCode", "trim">>>>
      [] tag = "13" ->
           <<<<4, "TypeCode", "raw">>, <<5, "EntryDetailSequenceNumber", "itoa">>,
             <<14, "ODFIName", "trim">>, <<15, "ODFIIDNumberQualifier", "trim">>,
             <<16, "ODFIIdentification", "trim">>,
             <<17, "ODFIBranchCountryCode", "trim">>>>
      [] tag = "14" ->
           <<<<4, "TypeCode", "raw">>, <<5, "EntryDetailSequenceNumber", "itoa">>,
             <<18, "RDFIName", "trim">>, <<19, "RDFIIDNumberQualifier", "trim">>,
             <<20, "RDFIIdentification", "trim">>,
             <<21, "RDFIBranchCountryCode", "trim">>>>
      [] tag = "15" ->
           <<<<4, "TypeCode", "raw">>, <<5, "EntryDetailSequenceNumber", "itoa">>,
             <<22, "ReceiverIDNumber", "trim">>, <<23, "ReceiverStreetAddress", "trim">>>>
      [] tag = "16" ->
           <<<<4, "TypeCode", "raw">>, <<5, "EntryDetailSequenceNumber", "itoa">>,
             <<24, "ReceiverCityStateProvince", "trim">>,
             <<25, "ReceiverCountryPostalCode", "trim">>>>
      [] tag = "17" ->
           <<<<4, "TypeCode", "raw">>, <<5, "EntryDetailSequenceNumber", "itoa">>,
             <<26, "PaymentRelatedInformation", "trim">>,
             <<27, "SequenceNumber", "itoa">>>>
      [] tag = "18" ->
           <<<<4, "TypeCode", "raw">>, <<5, "EntryDetailSequenceNumber", "itoa">>,
             <<27, "SequenceNumber", "itoa">>,
             <<28, "ForeignCorrespondentBankName", "trim">>,
             <<29, "ForeignCorrespondentBankIDNumberQualifier", "trim">>,
             <<30, "ForeignCorrespondentBankIDNumber", "trim">>,
             <<31, "ForeignCorrespondentBankBranchCountryCode", "trim">>>>
      [] tag = "98" ->
           <<<<4, "TypeCode", "raw">>, <<32, "OriginalTrace", "raw">>,
             <<33, "OriginalDFI", "raw">>, <<34, "CorrectedData", "trim">>,
             <<35, "ChangeCode", "raw">>, <<38, "TraceNumber", "raw">>>>
      [] tag = "99" ->
           <<<<4, "TypeCode", "raw">>, <<32, "OriginalTrace", "raw">>,
             <<33, "OriginalDFI", "raw">>, <<36, "ReturnCode", "raw">>,
             <<37, "AddendaInformation", "trim">>, <<38, "TraceNumber", "raw">>>>

\* The records of one entry with the counter stepped for nil addenda too.
RECURSIVE AddendaRecordsOfCountingNil(_, _, _, _, _, _)
AddendaRecordsOfCountingNil(n, iat, b, e, order, addendaIdx) ==
    IF order = <<>> THEN <<>>
    ELSE LET tag == Head(order)[1]
             a   == Head(order)[2]
         IN  IF a.kind = "nil"
             THEN AddendaRecordsOfCountingNil(n, iat, b, e, Tail(order), addendaIdx + 1)
             ELSE <<SetCells([IndexedRecord(n, <<b, e, addendaIdx>>, a, <<>>)
                                 EXCEPT ![4] = TagCell(tag)], a,
                            IF iat THEN IATAddendaCells(tag) ELSE AddendaCells(tag))>>
                  \o AddendaRecordsOfCountingNil(n, iat, b, e, Tail(order), addendaIdx + 1)

\* The records of one entry (iat: an entry of an IAT batch): nil addenda are
\* passed over, addendaIdx counts the records emitted so far.
RECURSIVE AddendaRecordsOf(_, _, _, _, _, _)
AddendaRecordsOf(n, iat, b, e, order, addendaIdx) ==
    IF order = <<>> THEN <<>>
    ELSE LET tag == Head(order)[1]
             a   == Head(order)[2]
         IN  IF a.kind = "nil"
             THEN AddendaRecordsOf(n, iat, b, e, Tail(order), addendaIdx)
             ELSE <<SetCells([IndexedRecord(n, <<b, e, addendaIdx>>, a, <<>>)
                                 EXCEPT ![4] = TagCell(tag)], a,
                            IF iat THEN IATAddendaCells(tag) ELSE AddendaCells(tag))>>
                  \o AddendaRecordsOf(n, iat, b, e, Tail(order), addendaIdx + 1)

convertAddenda(f) ==
    Table(AddendaHeaders,
          Flatten([b \in 1..Len(f.p.Batches) |->
             Flatten([e \in 1..Len(f.p.Batches[b].p.Entries) |->
                AddendaRecordsOf(Len(AddendaHeaders), FALSE, b - 1, e - 1,
                                 StdAddendaOrder(f.p.Batches[b].p.Entries[e]), 0)])]),
          AddendaColumnTypes)

\* The addenda of an IAT entry in the order convertIATAddenda visits them.
IATAddendaOrder(e) ==
    [k \in 1..Len(IATSingles) |-> <<IATSingles[k], Ptr(e, "Addenda" \o IATSingles[k])>>]
      \o [k \in 1..Len(e.p.Addenda17) |-> <<"17", e.p.Addenda17[k]>>]
      \o [k \in 1..Len(e.p.Addenda18) |-> <<"18", e.p.Addenda18[k]>>]
      \o <<<<"98", Ptr(e, "Addenda98")>>, <<"99", Ptr(e, "Addenda99")>>>>

convertIATAddenda(f) ==
    Table(IATAddendaHeaders,
          Flatten([b \in 1..Len(f.p.IATBatches) |->
             Flatten([e \in 1..Len(f.p.IATBatches[b].p.Entries) |->
                AddendaRecordsOf(Len(IATAddendaHeaders), TRUE, b - 1, e - 1,
                                 IATAddendaOrder(f.p.IATBatches[b].p.Entries[e]), 0)])]),
          IATAddendaColumnTypes)

\* The TableSet FromFile returns for a nil file.
NilTableSet == [nil |-> TRUE]

IsNilTS(t) == "nil" \in DOMAIN t

\* The TableSet literal &TableSet{}: no table and no original file.
EmptyTableSet ==
    [FileHeader |-> NoTable, Batches |-> NoTable, Entries |-> NoTable,
     Addenda |-> NoTable, IATBatches |-> NoTable, IATEntries |-> NoTable,
     IATAddenda |-> NoTable, originalFile |-> NULL]

\* A FromFile without the nil test: a nil file gives a TableSet that holds
\* no original file.
FromFileWithoutNilTest(f, addr) ==
    IF addr = NULL THEN EmptyTableSet
    ELSE [FileHeader |-> convertFileHeader(f),
          Batches    |-> convertBatches(f),
          Entries    |-> convertEntries(f),
          Addenda    |-> convertAddenda(f),
          IATBatches |-> IF Len(f.p.IATBatches) > 0 THEN convertIATBatches(f) ELSE NoTable,
          IATEntries |-> IF Len(f.p.IATBatches) > 0 THEN convertIATEntries(f) ELSE NoTable,
          IATAddenda |-> IF Len(f.p.IATBatches) > 0 THEN convertIATAddenda(f) ELSE NoTable,
          originalFile |-> addr]

\* A FromFile that builds the three IAT tables for every file.
FromFileWithIATTables(f, addr) ==
    IF addr = NULL THEN NilTableSet
    ELSE [FileHeader |-> convertFileHeader(f),
          Batches    |-> convertBatches(f),
          Entries    |-> convertEntries(f),
          Addenda    |-> convertAddenda(f),
          IATBatches |-> convertIATBatches(f),
          IATEntries |-> convertIATEntries(f),
          IATAddenda |-> convertIATAddenda(f),
          originalFile |-> addr]

\* FromFile for the file at address addr, whose value is f: the four standard
\* tables always, the three IAT tables when the file has an IAT batch.
FromFile(f, addr) ==
    IF addr = NULL THEN NilTableSet
    ELSE [FileHeader |-> convertFileHeader(f),
          Batches    |-> convertBatches(f),
          Entries    |-> convertEntries(f),
          Addenda    |-> convertAddenda(f),
          IATBatches |-> IF Len(f.p.IATBatches) > 0 THEN convertIATBatches(f) ELSE NoTable,
          IATEntries |-> IF Len(f.p.IATBatches) > 0 THEN convertIATEntries(f) ELSE NoTable,
          IATAddenda |-> IF Len(f.p.IATBatches) > 0 THEN convertIATAddenda(f) ELSE NoTable,
          originalFile |-> addr]


(***************************************************************************)
(* ToFile.  The work in progress is m = [heap, st]: st is "ok" while the   *)
(* call runs, "err" once a step has returned an error and "panic" once an  *)
(* index expression has gone out of range (a Go run-time panic).           *)
(***************************************************************************)
\* A headerIndex read without the ok test: a column name the table lacks
\* gives position 0.
HeaderIndexWithoutOkTest(headers) ==
    [h \in Range(headers) \cup Range(BatchHeaders) \cup Range(EntryHeaders) |->
        LET at == {i \in 1..Len(headers) : headers[i] = h}
        IN  IF at = {} THEN 0 ELSE (CHOOSE i \in at : \A j \in at : j <= i) - 1]

\* headerIndex: the map built by "for i, h := range Headers"; of two columns
\* with one name the later one stays.
HeaderIndex(headers) ==
    [h \in Range(headers) |->
        LET at == {i \in 1..Len(headers) : headers[i] = h}
        IN  (CHOOSE i \in at : \A j \in at : j <= i) - 1]

\* headerIndex[name] without the ok test: the zero value when name is absent.
Get(hi, name) == IF name \in DOMAIN hi THEN hi[name] ELSE 0

\* strconv.Atoi(record[idx]): "panic" when the record has no cell idx.
ReadInt(record, idx) ==
    IF idx >= Len(record) THEN [st |-> "panic", val |-> 0]
    ELSE LET r == Atoi(record[idx + 1])
         IN  [st |-> IF r.ok THEN "ok" ELSE "err", val |-> r.val]

\* The assignments "if idx, ok := headerIndex[col]; ok { o.fld = record[idx] }"
\* of spec, in order, on the record at address a.  guarded: the source also
\* tests idx < len(record).
ApplyFields(m, a, record, hi, spec, guarded) ==
    LET idx(k)  == hi[spec[k][1]]
        reads(k) == spec[k][1] \in DOMAIN hi
        short(k) == reads(k) /\ idx(k) >= Len(record)
        \* the first assignment that indexes past the record, if it panics
        stop == IF ~guarded /\ \E k \in 1..Len(spec) : short(k)
                THEN CHOOSE k \in 1..Len(spec) :
                        short(k) /\ \A j \in 1..(k - 1) : ~short(j)
                ELSE Len(spec) + 1
        sets(k) == /\ k < stop /\ reads(k) /\ ~short(k)
                   /\ spec[k][3] = "int" => Atoi(record[idx(k) + 1]).ok
        val(k)  == IF spec[k][3] = "int" THEN Atoi(record[idx(k) + 1]).val
                   ELSE record[idx(k) + 1]
        last(fld) == CHOOSE k \in 1..Len(spec) :
                        /\ spec[k][2] = fld /\ sets(k)
                        /\ \A j \in (k + 1)..Len(spec) : ~(spec[j][2] = fld /\ sets(j))
        f == [fld \in DOMAIN m.heap[a].f |->
                 IF \E k \in 1..Len(spec) : spec[k][2] = fld /\ sets(k)
                 THEN val(last(fld)) ELSE m.heap[a].f[fld]]
    IN  [m EXCEPT !.heap = [@ EXCEPT ![a].f = f],
                  !.st   = IF stop <= Len(spec) THEN "panic" ELSE @]

\* A failing row that is passed over: the call goes on with the next row.
FailSkipping(m, st) == m

\* The return of an error ("err") or a run-time panic from a step; the loop
\* "for _, record := range Records" of each function below ends with it.
Fail(m, st) == [m EXCEPT !.st = st]

FileHeaderFieldsByColumn ==
    <<<<"immediate_destination", "ImmediateDestination", "str">>,
      <<"immediate_origin", "ImmediateOrigin", "str">>,
      <<"file_creation_date", "FileCreationDate", "str">>,
      <<"file_creation_time", "FileCreationTime", "str">>,
      <<"file_id_modifier", "FileIDModifier", "str">>,
      <<"immediate_destination_name", "ImmediateDestinationName", "str">>,
      <<"immediate_origin_name", "ImmediateOriginName", "str">>,
      <<"reference_code", "ReferenceCode", "str">>>>

\* A reading of the header from the last row of the table.
applyFileHeaderFromLastRow(m, t, fa) ==
    IF Len(t.Records) = 0 THEN m
    ELSE ApplyFields(m, fa, t.Records[Len(t.Records)], HeaderIndex(t.Headers),
                     FileHeaderFieldsByColumn, TRUE)

applyFileHeaderModifications(m, t, fa) ==
    IF Len(t.Records) = 0 THEN m
    ELSE ApplyFields(m, fa, t.Records[1], HeaderIndex(t.Headers),
                     FileHeaderFieldsByColumn, TRUE)

BatchFieldsByColumn ==
    <<<<"service_class_code", "ServiceClassCode", "int">>,
      <<"company_name", "CompanyName", "str">>,
      <<"company_discretionary_data", "CompanyDiscretionaryData", "str">>,
      <<"company_identification", "CompanyIdentification", "str">>,
      <<"standard_entry_class_code", "StandardEntryClassCode", "str">>,
      <<"company_entry_description", "CompanyEntryDescription", "str">>,
      <<"company_descriptive_date", "CompanyDescriptiveDate", "str">>,
      <<"effective_entry_date", "EffectiveEntryDate", "str">>,
      <<"originator_status_code", "OriginatorStatusCode", "int">>,
      <<"odfi_identification", "ODFIIdentification", "str">>,
      <<"batch_number", "BatchNumber", "int">>>>

applyBatchModifications(m, t, fa) ==
    LET hi == HeaderIndex(t.Headers)
        Step(mm, record) ==
            IF "batch_index" \notin DOMAIN hi THEN mm
            ELSE LET b  == ReadInt(record, hi["batch_index"])
                     bs == mm.heap[fa].p.Batches
                 IN  IF b.st # "ok" THEN Fail(mm, b.st)
                     ELSE IF b.val >= Len(bs) THEN Fail(mm, "err")
                     ELSE IF b.val < 0 THEN Fail(mm, "panic")
                     ELSE ApplyFields(mm, bs[b.val + 1], record, hi,
                                      BatchFieldsByColumn, TRUE)
        after[k \in 0..Len(t.Records)] ==
            IF k = 0 THEN m
            ELSE LET prev == after[k - 1]
                 IN  IF prev.st # "ok" THEN prev ELSE Step(prev, t.Records[k])
    IN  after[Len(t.Records)]

\* An applyEntryModifications that takes the rows for the list of entries:
\* an entry that no row names is dropped from its batch.
entriesFromRows(m, t, fa) ==
    LET hi == HeaderIndex(t.Headers)
        bs == m.heap[fa].p.Batches
        named(b, e) ==
            \E r \in 1..Len(t.Records) :
                /\ ReadInt(t.Records[r], Get(hi, "batch_index")) = [st |-> "ok", val |-> b]
                /\ ReadInt(t.Records[r], Get(hi, "entry_index")) = [st |-> "ok", val |-> e]
        kept(b) ==
            LET es == m.heap[bs[b]].p.Entries
                at == SelectSeq([i \in 1..Len(es) |-> i], LAMBDA i : named(b - 1, i - 1))
            IN  [k \in 1..Len(at) |-> es[at[k]]]
    IN  [m EXCEPT !.heap =
            [a \in DOMAIN m.heap |->
                IF \E b \in 1..Len(bs) : bs[b] = a
                THEN [m.heap[a] EXCEPT
                        !.p.Entries = kept(CHOOSE b \in 1..Len(bs) : bs[b] = a)]
                ELSE m.heap[a]]]

EntryFieldsByColumn ==
    <<<<"transaction_code", "TransactionCode", "int">>,
      <<"rdfi_identification", "RDFIIdentification", "str">>,
      <<"check_digit", "CheckDigit", "str">>,
      <<"dfi_account_number", "DFIAccountNumber", "str">>,
      <<"amount", "Amount", "int">>,
      <<"identification_number", "IdentificationNumber", "str">>,
      <<"individual_name", "IndividualName", "str">>,
      <<"discretionary_data", "DiscretionaryData", "str">>,
      <<"addenda_record_indicator", "AddendaRecordIndicator", "int">>,
      <<"trace_number", "TraceNumber", "str">>,
      <<"category", "Category", "str">>>>

applyEntryModifications(m, t, fa) ==
    LET hi == HeaderIndex(t.Headers)
        Step(mm, record) ==
            LET b  == ReadInt(record, Get(hi, "batch_index"))
                e  == ReadInt(record, Get(hi, "entry_index"))
                bs == mm.heap[fa].p.Batches
                es == mm.heap[bs[b.val + 1]].p.Entries
            IN  IF b.st # "ok" THEN Fail(mm, b.st)
                ELSE IF e.st # "ok" THEN Fail(mm, e.st)
                ELSE IF b.val >= Len(bs) THEN Fail(mm, "err")
                ELSE IF b.val < 0 THEN Fail(mm, "panic")
                ELSE IF e.val >= Len(es) THEN Fail(mm, "err")
                ELSE IF e.val < 0 THEN Fail(mm, "panic")
                ELSE ApplyFields(mm, es[e.val + 1], record, hi, EntryFieldsByColumn,
                                 FALSE)
        after[k \in 0..Len(t.Records)] ==
            IF k = 0 THEN m
            ELSE LET prev == after[k - 1]
                 IN  IF prev.st # "ok" THEN prev ELSE Step(prev, t.Records[k])
    IN  after[Len(t.Records)]


\* A reading of payment_related_information into the trace number of every
\* variant.
AddendaFieldsReadingPaymentInformation(tag) ==
    <<<<"payment_related_information", "TraceNumber", "str">>>>

\* The columns each applyAddendaNNModifications reads and the field each sets.
AddendaFieldsByColumn(tag) ==
    CASE tag = "02" ->
           <<<<"reference_information_one", "ReferenceInformationOne", "str">>,
             <<"reference_information_two", "ReferenceInformationTwo", "str">>,
             <<"terminal_identification", "TerminalIdentificationCode", "str">>,
             <<"transaction_serial", "TransactionSerialNumber", "str">>,
             <<"transaction_date", "TransactionDate", "str">>,
             <<"authorization_code", "AuthorizationCodeOrExpireDate", "str">>,
             <<"terminal_location", "TerminalLocation", "str">>,
             <<"terminal_city", "TerminalCity", "str">>,
             <<"terminal_state", "TerminalState", "str">>>>
      [] tag = "05" ->
           <<<<"payment_related_information", "PaymentRelatedInformation", "str">>,
             <<"sequence_number", "SequenceNumber", "int">>,
             <<"entry_detail_sequence_number", "EntryDetailSequenceNumber", "int">>>>
      [] tag = "98" ->
           <<<<"change_code", "ChangeCode", "str">>,
             <<"original_trace", "OriginalTrace", "str">>,
             <<"original_rdfi", "OriginalDFI", "str">>,
             <<"corrected_data", "CorrectedData", "str">>>>
      [] tag = "99" ->
           <<<<"return_code", "ReturnCode", "str">>,
             <<"original_trace", "OriginalTrace", "str">>,
             <<"original_rdfi", "OriginalDFI", "str">>,
             <<"addenda_information", "AddendaInformation", "str">>>>
      [] tag = "98_refused" ->
           <<<<"refused_change_code", "RefusedChangeCode", "str">>,
             <<"original_trace", "OriginalTrace", "str">>,
             <<"original_rdfi", "OriginalDFI", "str">>,
             <<"corrected_data", "CorrectedData", "str">>,
             <<"change_code", "ChangeCode", "str">>,
             <<"trace_sequence_number", "TraceSequenceNumber", "str">>,
             <<"trace_number", "TraceNumber", "str">>>>
      [] tag = "99_dishonored" ->
           <<<<"dishonored_return_reason_code", "DishonoredReturnReasonCode", "str">>,
             <<"original_entry_trace_number", "OriginalEntryTraceNumber", "str">>,
             <<"original_receiving_dfi_identification",
               "OriginalReceivingDFIIdentification", "str">>,
             <<"return_trace_number", "ReturnTraceNumber", "str">>,
             <<"return_settlement_date", "ReturnSettlementDate", "str">>,
             <<"return_reason_code", "ReturnReasonCode", "str">>,
             <<"addenda_information", "AddendaInformation", "str">>,
             <<"trace_number", "TraceNumber", "str">>>>
      [] tag = "99_contested" ->
           <<<<"contested_return_code", "ContestedReturnCode", "str">>,
             <<"original_entry_trace_number", "OriginalEntryTraceNumber", "str">>,
             <<"date_original_entry_returned", "DateOriginalEntryReturned", "str">>,
             <<"original_receiving_dfi_identification",
               "OriginalReceivingDFIIdentification", "str">>,
             <<"original_settlement_date", "OriginalSettlementDate", "str">>,
             <<"return_trace_number", "ReturnTraceNumber", "str">>,
             <<"return_settlement_date", "ReturnSettlementDate", "str">>,
             <<"return_reason_code", "ReturnReasonCode", "str">>,
             <<"dishonored_return_trace_number", "DishonoredReturnTraceNumber", "str">>,
             <<"dishonored_return_settlement_date", "DishonoredReturnSettlementDate",
               "str">>,
             <<"dishonored_return_reason_code", "DishonoredReturnReasonCode", "str">>,
             <<"trace_number", "TraceNumber", "str">>>>

\* The pointer field of the entry that each single-instance tag selects.
AddendaFieldOfTag(tag) ==
    CASE tag = "02" -> "Addenda02"
      [] tag = "98" -> "Addenda98"
      [] tag = "99" -> "Addenda99"
      [] tag = "98_refused" -> "Addenda98Refused"
      [] tag = "99_dishonored" -> "Addenda99Dishonored"
      [] tag = "99_contested" -> "Addenda99Contested"

\* The tag a cell of the addenda_type column spells, "" when it spells none.
\* A dispatch that takes a tag it does not know for the tag 05.
TagOfCellDefaulting05(cell) ==
    IF \E tag \in StdVariants \cup {"05"} : TagCell(tag) = cell
    THEN CHOOSE tag \in StdVariants \cup {"05"} : TagCell(tag) = cell
    ELSE "05"

TagOfCell(cell) ==
    IF \E tag \in StdVariants \cup {"05"} : TagCell(tag) = cell
    THEN CHOOSE tag \in StdVariants \cup {"05"} : TagCell(tag) = cell
    ELSE ""

applyAddendaModifications(m, t, fa) ==
    LET hi == HeaderIndex(t.Headers)
        Step(mm, record) ==
            LET b     == ReadInt(record, Get(hi, "batch_index"))
                e     == ReadInt(record, Get(hi, "entry_index"))
                a     == ReadInt(record, Get(hi, "addenda_index"))
                bs    == mm.heap[fa].p.Batches
                es    == mm.heap[bs[b.val + 1]].p.Entries
                entry == mm.heap[es[e.val + 1]]
                addendaType ==
                    IF "addenda_type" \in DOMAIN hi /\ hi["addenda_type"] < Len(record)
                    THEN TagOfCell(record[hi["addenda_type"] + 1])
                    ELSE ""
            IN  IF b.st # "ok" THEN Fail(mm, b.st)
                ELSE IF e.st # "ok" THEN Fail(mm, e.st)
                ELSE IF a.st # "ok" THEN Fail(mm, a.st)
                ELSE IF b.val >= Len(bs) THEN mm
                ELSE IF b.val < 0 THEN Fail(mm, "panic")
                ELSE IF e.val >= Len(es) THEN mm
                ELSE IF e.val < 0 THEN Fail(mm, "panic")
                ELSE IF addendaType = "" THEN mm
                ELSE IF addendaType = "05"
                THEN (IF a.val >= Len(entry.p.Addenda05) THEN mm
                      ELSE IF a.val < 0 THEN Fail(mm, "panic")
                      ELSE IF entry.p.Addenda05[a.val + 1] = NULL THEN mm
                      ELSE ApplyFields(mm, entry.p.Addenda05[a.val + 1], record, hi,
                                       AddendaFieldsByColumn("05"), TRUE))
                ELSE IF Ptr(entry, AddendaFieldOfTag(addendaType)) = NULL THEN mm
                ELSE ApplyFields(mm, Ptr(entry, AddendaFieldOfTag(addendaType)), record,
                                 hi, AddendaFieldsByColumn(addendaType), TRUE)
        after[k \in 0..Len(t.Records)] ==
            IF k = 0 THEN m
            ELSE LET prev == after[k - 1]
                 IN  IF prev.st # "ok" THEN prev ELSE Step(prev, t.Records[k])
    IN  after[Len(t.Records)]


IATBatchFieldsByColumn ==
    <<<<"service_class_code", "ServiceClassCode", "int">>,
      <<"iat_indicator", "IATIndicator", "str">>,
      <<"foreign_exchange_indicator", "ForeignExchangeIndicator", "str">>,
      <<"foreign_exchange_reference_indicator", "ForeignExchangeReferenceIndicator",
        "int">>,
      <<"foreign_exchange_reference", "ForeignExchangeReference", "str">>,
      <<"iso_destination_country_code", "ISODestinationCountryCode", "str">>,
      <<"originator_identification", "OriginatorIdentification", "str">>,
      <<"standard_entry_class_code", "StandardEntryClassCode", "str">>,
      <<"company_entry_description", "CompanyEntryDescription", "str">>,
      <<"iso_originating_currency_code", "ISOOriginatingCurrencyCode", "str">>,
      <<"iso_destination_currency_code", "ISODestinationCurrencyCode", "str">>,
      <<"effective_entry_date", "EffectiveEntryDate", "str">>,
      <<"odfi_identification", "ODFIIdentification", "str">>,
      <<"batch_number", "BatchNumber", "int">>>>

applyIATBatchModifications(m, t, fa) ==
    LET hi == HeaderIndex(t.Headers)
        Step(mm, record) ==
            LET b  == ReadInt(record, Get(hi, "batch_index"))
                bs == mm.heap[fa].p.IATBatches
            IN  IF b.st # "ok" THEN Fail(mm, b.st)
                ELSE IF b.val < 0 \/ b.val >= Len(bs) THEN mm
                ELSE ApplyFields(mm, bs[b.val + 1], record, hi, IATBatchFieldsByColumn,
                                 FALSE)
        after[k \in 0..Len(t.Records)] ==
            IF k = 0 THEN m
            ELSE LET prev == after[k - 1]
                 IN  IF prev.st # "ok" THEN prev ELSE Step(prev, t.Records[k])
    IN  after[Len(t.Records)]

IATEntryFieldsByColumn ==
    <<<<"transaction_code", "TransactionCode", "int">>,
      <<"rdfi_identification", "RDFIIdentification", "str">>,
      <<"check_digit", "CheckDigit", "str">>,
      <<"addenda_records", "AddendaRecords", "int">>,
      <<"amount", "Amount", "int">>,
      <<"dfi_account_number", "DFIAccountNumber", "str">>,
      <<"ofac_screening_indicator", "OFACScreeningIndicator", "str">>,
      <<"secondary_ofac_screening_indicator", "SecondaryOFACScreeningIndicator", "str">>,
      <<"addenda_record_indicator", "AddendaRecordIndicator", "int">>,
      <<"trace_number", "TraceNumber", "str">>,
      <<"category", "Category", "str">>>>

applyIATEntryModifications(m, t, fa) ==
    LET hi == HeaderIndex(t.Headers)
        Step(mm, record) ==
            LET b  == ReadInt(record, Get(hi, "batch_index"))
                e  == ReadInt(record, Get(hi, "entry_index"))
                bs == mm.heap[fa].p.IATBatches
                es == mm.heap[bs[b.val + 1]].p.Entries
            IN  IF b.st # "ok" THEN Fail(mm, b.st)
                ELSE IF e.st # "ok" THEN Fail(mm, e.st)
                ELSE IF b.val < 0 \/ b.val >= Len(bs) THEN mm
                ELSE IF e.val < 0 \/ e.val >= Len(es) THEN mm
                ELSE ApplyFields(mm, es[e.val + 1], record, hi, IATEntryFieldsByColumn,
                                 FALSE)
        after[k \in 0..Len(t.Records)] ==
            IF k = 0 THEN m
            ELSE LET prev == after[k - 1]
                 IN  IF prev.st # "ok" THEN prev ELSE Step(prev, t.Records[k])
    IN  after[Len(t.Records)]

IATAddendaFieldsByColumn(tag) ==
    CASE tag = "10" ->
           <<<<"transaction_type_code", "TransactionTypeCode", "str">>,
             <<"foreign_payment_amount", "ForeignPaymentAmount", "int">>,
             <<"foreign_trace_number", "ForeignTraceNumber", "str">>,
             <<"receiving_company_name", "Name", "str">>>>
      [] tag = "11" ->
           <<<<"originator_name", "OriginatorName", "str">>,
             <<"originator_street_address", "OriginatorStreetAddress", "str">>>>
      [] tag = "12" ->
           <<<<"originator_city_state_province", "OriginatorCityStateProvince", "str">>,
             <<"originator_country_postal_code", "OriginatorCountryPostalCode", "str">>>>
      [] tag = "13" ->
           <<<<"odfi_name", "ODFIName", "str">>,
             <<"odfi_identification_number_qualifier", "ODFIIDNumberQualifier", "str">>,
             <<"odfi_identification", "ODFIIdentification", "str">>,
             <<"odfi_branch_country_code", "ODFIBranchCountryCode", "str">>>>
      [] tag = "14" ->
           <<<<"rdfi_name", "RDFIName", "str">>,
             <<"rdfi_identification_number_qualifier", "RDFIIDNumberQualifier", "str">>,
             <<"rdfi_identification", "RDFIIdentification", "str">>,
             <<"rdfi_branch_country_code", "RDFIBranchCountryCode", "str">>>>
      [] tag = "15" ->
           <<<<"receiver_identification_number", "ReceiverIDNumber", "str">>,
             <<"receiver_street_address", "ReceiverStreetAddress", "str">>>>
      [] tag = "16" ->
           <<<<"receiver_city_state_province", "ReceiverCityStateProvince", "str">>,
             <<"receiver_country_postal_code", "ReceiverCountryPostalCode", "str">>>>
      [] tag = "17" ->
           <<<<"payment_related_information", "PaymentRelatedInformation", "str">>>>
      [] tag = "18" ->
           <<<<"foreign_correspondent_bank_name", "ForeignCorrespondentBankName", "str">>,
             <<"foreign_correspondent_bank_id_number_qualifier",
               "ForeignCorrespondentBankIDNumberQualifier", "str">>,
             <<"foreign_correspondent_bank_id_number",
               "ForeignCorrespondentBankIDNumber", "str">>,
             <<"foreign_correspondent_bank_branch_country_code",
               "ForeignCorrespondentBankBranchCountryCode", "str">>>>
      [] tag = "98" ->
           <<<<"original_trace", "OriginalTrace", "str">>,
             <<"original_rdfi", "OriginalDFI", "str">>,
             <<"corrected_data", "CorrectedData", "str">>,
             <<"change_code", "ChangeCode", "str">>,
             <<"trace_number", "TraceNumber", "str">>>>
      [] tag = "99" ->
           <<<<"original_trace", "OriginalTrace", "str">>,
             <<"original_rdfi", "OriginalDFI", "str">>,
             <<"return_code", "ReturnCode", "str">>,
             <<"addenda_information", "AddendaInformation", "str">>,
             <<"trace_number", "TraceNumber", "str">>>>

IATTags == Range(IATSingles) \cup {"17", "18", "98", "99"}

IATTagOfCell(cell) ==
    IF \E tag \in IATTags : TagCell(tag) = cell
    THEN CHOOSE tag \in IATTags : TagCell(tag) = cell
    ELSE ""

\* The number of non-nil pointers among Addenda10 to Addenda16 of the entry.
Addenda10To16(entry) ==
    Cardinality({k \in 1..Len(IATSingles) : Ptr(entry, "Addenda" \o IATSingles[k]) # NULL})

findAddenda17Index(entry, addendaIdx) == addendaIdx - Addenda10To16(entry)

\* An index into Addenda18 that does not count the Addenda17 occurrences.
findAddenda18IndexSansAddenda17(entry, addendaIdx) == addendaIdx - Addenda10To16(entry)

findAddenda18Index(entry, addendaIdx) ==
    addendaIdx - (Addenda10To16(entry) + Len(entry.p.Addenda17))


applyIATAddendaModifications(m, t, fa) ==
    LET hi == HeaderIndex(t.Headers)
        Step(mm, record) ==
            LET b     == ReadInt(record, Get(hi, "batch_index"))
                e     == ReadInt(record, Get(hi, "entry_index"))
                a     == ReadInt(record, Get(hi, "addenda_index"))
                bs    == mm.heap[fa].p.IATBatches
                es    == mm.heap[bs[b.val + 1]].p.Entries
                entry == mm.heap[es[e.val + 1]]
                addendaType == IATTagOfCell(record[Get(hi, "addenda_type") + 1])
                a17Idx == findAddenda17Index(entry, a.val)
                a18Idx == findAddenda18Index(entry, a.val)
            IN  IF b.st # "ok" THEN Fail(mm, b.st)
                ELSE IF e.st # "ok" THEN Fail(mm, e.st)
                ELSE IF b.val < 0 \/ b.val >= Len(bs) THEN mm
                ELSE IF e.val < 0 \/ e.val >= Len(es) THEN mm
                ELSE IF Get(hi, "addenda_type") >= Len(record) THEN Fail(mm, "panic")
                ELSE IF addendaType = "" THEN mm
                ELSE IF addendaType = "17"
                THEN (IF a.st = "panic" THEN Fail(mm, "panic")
                      ELSE IF a.st = "err" THEN mm
                      ELSE IF a17Idx >= 0 /\ a17Idx < Len(entry.p.Addenda17)
                              /\ entry.p.Addenda17[a17Idx + 1] # NULL
                      THEN ApplyFields(mm, entry.p.Addenda17[a17Idx + 1], record, hi,
                                       IATAddendaFieldsByColumn("17"), FALSE)
                      ELSE mm)
                ELSE IF addendaType = "18"
                THEN (IF a.st = "panic" THEN Fail(mm, "panic")
                      ELSE IF a.st = "err" THEN mm
                      ELSE IF a18Idx >= 0 /\ a18Idx < Len(entry.p.Addenda18)
                              /\ entry.p.Addenda18[a18Idx + 1] # NULL
                      THEN ApplyFields(mm, entry.p.Addenda18[a18Idx + 1], record, hi,
                                       IATAddendaFieldsByColumn("18"), FALSE)
                      ELSE mm)
                ELSE IF Ptr(entry, "Addenda" \o addendaType) = NULL THEN mm
                ELSE ApplyFields(mm, Ptr(entry, "Addenda" \o addendaType), record, hi,
                                 IATAddendaFieldsByColumn(addendaType), FALSE)
        after[k \in 0..Len(t.Records)] ==
            IF k = 0 THEN m
            ELSE LET prev == after[k - 1]
                 IN  IF prev.st # "ok" THEN prev ELSE Step(prev, t.Records[k])
    IN  after[Len(t.Records)]

(***************************************************************************)
(* File.Create of github.com/moov-io/ach, as ToFile uses it: the header    *)
(* must validate and the file must hold a batch; batches numbered 0 or 1   *)
(* get their place in the file as number; the file control is summed from  *)
(* the batch controls, which Create reads and does not recompute.          *)
(***************************************************************************)
MandatoryHeaderFields == {"ImmediateDestination", "ImmediateOrigin", "FileCreationDate"}

HeaderValid(f) == \A n \in MandatoryHeaderFields : f.f[n] # <<>>

Create(m, fa) ==
    LET f   == m.heap[fa]
        all == f.p.Batches \o f.p.IATBatches
        seq(a) == CHOOSE k \in 1..Len(all) : all[k] = a
        numbered ==
            [a \in DOMAIN m.heap |->
                IF (\E k \in 1..Len(all) : all[k] = a) /\ m.heap[a].f.BatchNumber <= 1
                THEN [m.heap[a] EXCEPT !.f.BatchNumber = seq(a),
                                       !.f.ControlBatchNumber = seq(a)]
                ELSE m.heap[a]]
    IN  IF ~HeaderValid(f) THEN Fail(m, "err")
        ELSE IF Len(all) = 0 THEN Fail(m, "err")
        ELSE [m EXCEPT !.heap =
                 [numbered EXCEPT ![fa].f =
                     FileTotals([k \in 1..Len(all) |-> numbered[all[k]]]) @@ @]]

\* The tables in the order ToFile applies them.
TableOrder ==
    <<"FileHeader", "Batches", "Entries", "Addenda", "IATBatches", "IATEntries",
      "IATAddenda">>

\* One step of ToFile: "if ts.T != nil && len(ts.T.Records) > 0 { apply }",
\* for the table named tn; a step that has failed ends the call.
ApplyTable(m, t, fa, tn) ==
    IF m.st # "ok" \/ ~Present(t) THEN m
    ELSE IF Len(t.Records) = 0 THEN m
    ELSE CASE tn = "FileHeader" -> applyFileHeaderModifications(m, t, fa)
           [] tn = "Batches"    -> applyBatchModifications(m, t, fa)
           [] tn = "Entries"    -> applyEntryModifications(m, t, fa)
           [] tn = "Addenda"    -> applyAddendaModifications(m, t, fa)
           [] tn = "IATBatches" -> applyIATBatchModifications(m, t, fa)
           [] tn = "IATEntries" -> applyIATEntryModifications(m, t, fa)
           [] tn = "IATAddenda" -> applyIATAddendaModifications(m, t, fa)

\* ToFile on the TableSet t with the heap h: the heap it leaves, how the call
\* ends ("ok", "err", or "panic" when it does not return) and the file it
\* returns.  The steps run in order on the copy of the original file: one
\* per table, then File.Create, then the return.
ToFile(h, t) ==
    IF IsNilTS(t) \/ t.originalFile = NULL
    THEN [heap |-> h, kind |-> "err", file |-> NULL]
    ELSE LET c == DeepCopy(h, t.originalFile)
             n == Len(TableOrder)
             after[k \in 0..(n + 2)] ==
                 IF k = 0 THEN [heap |-> c.heap, st |-> "ok", fa |-> c.addr]
                 ELSE LET m == after[k - 1]
                      IN  IF k <= n
                          THEN ApplyTable(m, t[TableOrder[k]], m.fa, TableOrder[k])
                          ELSE IF k = n + 1
                          THEN (IF m.st = "ok" THEN Create(m, m.fa) ELSE m)
                          ELSE [heap |-> m.heap, kind |-> m.st,
                                file |-> IF m.st = "ok" THEN m.fa ELSE NULL]
         IN  after[n + 2]



(***************************************************************************)
(* The program: a caller holds a file, flattens it with FromFile, changes  *)
(* the tables of the TableSet (their fields are exported) and calls        *)
(* ToFile.  result is what the last ToFile call gave, and the number of    *)
(* edits the tables had taken when it was made.                            *)
(***************************************************************************)
TableNames ==
    {"FileHeader", "Batches", "Entries", "Addenda", "IATBatches", "IATEntries",
     "IATAddenda"}

\* The values a caller writes into a cell: an index that exists in a file of
\* two batches or entries, one that exists in no file, a negative one and
\* one that is no number; a number or no number into an integer column; a
\* text or nothing into a text column.
IndexColumns == {"batch_index", "entry_index", "addenda_index"}

CellValues(t, c) ==
    IF t.Headers[c + 1] \in IndexColumns THEN {<<"1">>, <<"7">>, <<"-", "1">>, <<"x">>}
    ELSE IF t.ColumnTypes[c + 1] = INTEGER THEN {<<"7">>, <<"x">>}
    ELSE {<<"x">>, <<>>}

\* The columns (zero-based) the caller edits, per table: the index columns,
\* the tag, and text and integer fields, the control totals of the batches
\* table and both columns named dishonored_return_reason_code among them.
EditCols(tn) ==
    CASE tn = "FileHeader" -> {0, 5}
      [] tn = "Batches"    -> {0, 2, 11, 12, 13, 14, 15}
      [] tn = "Entries"    -> {0, 1, 3, 6, 8}
      [] tn = "Addenda"    -> {0, 1, 2, 3, 5, 6, 12, 26, 37}
      [] tn = "IATBatches" -> {0, 2}
      [] tn = "IATEntries" -> {0, 1, 6}
      [] tn = "IATAddenda" -> {0, 1, 2, 3, 26, 28}

NoResult == [kind |-> "none", file |-> NULL, edits |-> 0]

\* The goroutines that call ToFile on the one TableSet at the same time, and
\* where each is in its call: pc steps done (the copy, one step per table,
\* File.Create), how it goes and the address of its newFile.
Threads == {1, 2}

Idle == [pc |-> 0, st |-> "ok", fa |-> NULL]

Returning == Len(TableOrder) + 2

Init ==
    /\ \/ heap = <<>> /\ file = NULL
       \/ \E s \in Shapes :
             LET a == Alloc(<<>>, MkFile(s)) IN heap = a.heap /\ file = a.addr
    /\ ts = NilTableSet
    /\ phase = "start"
    /\ result = NoResult
    /\ edits = 0
    /\ calls = 0
    /\ run = [i \in Threads |-> Idle]

CallFromFile ==
    /\ phase = "start"
    /\ ts' = FromFile(Val(heap, file), file)
    /\ phase' = "flat"
    /\ UNCHANGED <<heap, file, result, edits, calls, run>>

\* The caller builds a TableSet of their own instead of calling FromFile.
NewTableSet ==
    /\ phase = "start"
    /\ ts' = EmptyTableSet
    /\ phase' = "made"
    /\ UNCHANGED <<heap, file, result, edits, calls, run>>

\* The rows of table tn the caller can reach.
Rows(tn) ==
    IF IsNilTS(ts) \/ ~Present(ts[tn]) THEN {} ELSE 1..Len(ts[tn].Records)

\* An edit that also writes into the header of the file the caller holds.
EditedWritingThrough(t) ==
    /\ edits < MaxEdits
    /\ ts' = t
    /\ edits' = edits + 1
    /\ heap' = [heap EXCEPT ![file].f.ReferenceCode = <<"e">>]
    /\ UNCHANGED <<file, phase, result, calls, run>>

Edited(t) ==
    /\ edits < MaxEdits
    /\ ts' = t
    /\ edits' = edits + 1
    /\ UNCHANGED <<heap, file, phase, result, calls, run>>

EditCell ==
    \E tn \in TableNames : \E r \in Rows(tn) : \E c \in EditCols(tn) :
    \E v \in CellValues(ts[tn], c) :
        /\ ts[tn].Records[r][c + 1] # v
        /\ Edited([ts EXCEPT ![tn].Records[r][c + 1] = v])

RemoveAt(s, r) == SubSeq(s, 1, r - 1) \o SubSeq(s, r + 1, Len(s))

DeleteRow ==
    \E tn \in TableNames : \E r \in Rows(tn) :
        Edited([ts EXCEPT ![tn].Records = RemoveAt(@, r)])

DuplicateRow ==
    \E tn \in TableNames : \E r \in Rows(tn) :
        Edited([ts EXCEPT ![tn].Records = Append(@, @[r])])

\* Reordering: a row that is not the last one goes to the end.
MoveRow ==
    \E tn \in TableNames : \E r \in Rows(tn) :
        /\ r < Len(ts[tn].Records)
        /\ Edited([ts EXCEPT ![tn].Records = Append(RemoveAt(@, r), @[r])])

CallToFile ==
    /\ phase \in {"flat", "made"}
    /\ calls < MaxCalls
    /\ \E r \in {ToFile(heap, ts)} :
           /\ heap' = r.heap
           /\ result' = [kind |-> r.kind, file |-> r.file, edits |-> edits]
    /\ calls' = calls + 1
    /\ UNCHANGED <<file, ts, phase, edits, run>>

Next ==
    \/ CallFromFile
    \/ NewTableSet
    \/ EditCell
    \/ DeleteRow
    \/ DuplicateRow
    \/ MoveRow
    \/ CallToFile

Spec == Init /\ [][Next]_vars

(***************************************************************************)
(* Two goroutines call ToFile on the same TableSet.  Each call is the      *)
(* steps of ToFile, one at a time, on the heap both share; the caller      *)
(* edits the tables only before the first call starts.                     *)
(***************************************************************************)
\* "if ts == nil || ts.originalFile == nil { return }", then deepcopy.Copy.
ThreadCopy ==
    \E i \in Threads :
        /\ phase \in {"flat", "made"}
        /\ run[i].pc = 0
        /\ IF IsNilTS(ts) \/ ts.originalFile = NULL
           THEN /\ heap' = heap
                /\ run' = [run EXCEPT ![i] = [pc |-> Returning, st |-> "err", fa |-> NULL]]
           ELSE \E c \in {DeepCopy(heap, ts.originalFile)} :
                   /\ heap' = c.heap
                   /\ run' = [run EXCEPT ![i] = [pc |-> 1, st |-> "ok", fa |-> c.addr]]
        /\ UNCHANGED <<file, ts, phase, result, edits, calls>>

\* The step for the next table; an error or a panic ends the call.
ThreadApply ==
    \E i \in Threads :
        /\ run[i].pc \in 1..Len(TableOrder)
        /\ \E r \in {ApplyTable([heap |-> heap, st |-> "ok", fa |-> run[i].fa],
                                ts[TableOrder[run[i].pc]], run[i].fa,
                                TableOrder[run[i].pc])} :
               /\ heap' = r.heap
               /\ run' = [run EXCEPT ![i] =
                              [pc |-> IF r.st = "ok" THEN run[i].pc + 1 ELSE Returning,
                               st |-> r.st, fa |-> run[i].fa]]
        /\ UNCHANGED <<file, ts, phase, result, edits, calls>>

\* newFile.Create(), and the return.
ThreadCreate ==
    \E i \in Threads :
        /\ run[i].pc = Len(TableOrder) + 1
        /\ \E r \in {Create([heap |-> heap, st |-> "ok", fa |-> run[i].fa], run[i].fa)} :
               /\ heap' = r.heap
               /\ run' = [run EXCEPT ![i] = [pc |-> Returning, st |-> r.st, fa |-> run[i].fa]]
        /\ UNCHANGED <<file, ts, phase, result, edits, calls>>

EditBeforeCalls ==
    /\ \A i \in Threads : run[i].pc = 0
    /\ EditCell

\* The files the two goroutines work on.
ConcShapes ==
    {s \in Shapes : \/ s.nb = 0 /\ s.iat = 0
                    \/ ~s.hv
                    \/ s.iat = 1 /\ s.nb = 1 /\ s.rep = 1}

InitConc ==
    /\ Init
    /\ file # NULL => \E s \in ConcShapes : Val(heap, file) = MkFile(s)

NextConc ==
    \/ CallFromFile
    \/ NewTableSet
    \/ EditBeforeCalls
    \/ ThreadCopy
    \/ ThreadApply
    \/ ThreadCreate

SpecConc == InitConc /\ [][NextConc]_vars

(***************************************************************************)
(* The caller changes the file they passed to FromFile, through their own  *)
(* pointer, before calling ToFile.                                         *)
(***************************************************************************)
\* The value the caller writes; no field of a file as built holds it.
Modified == <<"m">>

\* The fields the caller writes, as <<address, field>>: a field of the file
\* header, one of the first batch header, and one of its first entry.
Modifiable(h, fa) ==
    LET bs == h[fa].p.Batches
        es == IF bs = <<>> THEN <<>> ELSE h[bs[1]].p.Entries
    IN  {<<fa, "ImmediateOriginName">>}
          \cup (IF bs = <<>> THEN {} ELSE {<<bs[1], "CompanyName">>})
          \cup (IF es = <<>> THEN {}
                ELSE {<<es[1], "IndividualName">>})

ModifyFile ==
    /\ phase = "flat"
    /\ file # NULL
    /\ calls = 0
    /\ \E w \in Modifiable(heap, file) :
           /\ heap[w[1]].f[w[2]] # Modified
           /\ heap' = [heap EXCEPT ![w[1]].f[w[2]] = Modified]
    /\ UNCHANGED <<file, ts, phase, result, edits, calls, run>>

NextModify ==
    \/ CallFromFile
    \/ ModifyFile
    \/ CallToFile

SpecModify == Init /\ [][NextModify]_vars

(***************************************************************************)
(* The caller edits the file_header table alone, more than once: cells     *)
(* written, and rows removed, repeated and moved to the end.               *)
(***************************************************************************)
MaxHeaderEdits == 2

HeaderEdited(records) ==
    /\ edits < MaxHeaderEdits
    /\ ts' = [ts EXCEPT !.FileHeader.Records = records]
    /\ edits' = edits + 1
    /\ UNCHANGED <<heap, file, phase, result, calls, run>>

EditHeaderTable ==
    /\ calls = 0
    /\ \E r \in Rows("FileHeader") :
          \/ \E c \in EditCols("FileHeader") : \E v \in CellValues(ts.FileHeader, c) :
                /\ ts.FileHeader.Records[r][c + 1] # v
                /\ HeaderEdited([ts.FileHeader.Records EXCEPT ![r][c + 1] = v])
          \/ HeaderEdited(RemoveAt(ts.FileHeader.Records, r))
          \/ HeaderEdited(Append(ts.FileHeader.Records, ts.FileHeader.Records[r]))
          \/ /\ r < Len(ts.FileHeader.Records)
             /\ HeaderEdited(Append(RemoveAt(ts.FileHeader.Records, r),
                                    ts.FileHeader.Records[r]))

NextHeader ==
    \/ CallFromFile
    \/ EditHeaderTable
    \/ CallToFile

SpecHeader == Init /\ [][NextHeader]_vars

(***************************************************************************)
(* The caller hands ToFile a batches or an entries table that lacks a      *)
(* field column, after editing field cells of these tables or not.         *)
(***************************************************************************)
\* The columns the caller leaves out: a text and an integer column of each.
DroppableColumns(tn) ==
    IF tn = "Batches" THEN {"company_name", "service_class_code"}
    ELSE {"individual_name", "amount"}

FullHeaders(tn) == IF tn = "Batches" THEN BatchHeaders ELSE EntryHeaders

NoColumnDropped ==
    /\ phase = "flat" /\ file # NULL
    /\ \A tn \in {"Batches", "Entries"} : ts[tn].Headers = FullHeaders(tn)

\* Table t without the column named n.
WithoutColumn(t, n) ==
    LET c == CHOOSE i \in 1..Len(t.Headers) : t.Headers[i] = n
    IN  [Headers     |-> RemoveAt(t.Headers, c),
         Records     |-> [r \in 1..Len(t.Records) |-> RemoveAt(t.Records[r], c)],
         ColumnTypes |-> RemoveAt(t.ColumnTypes, c)]

EditFieldCell ==
    /\ NoColumnDropped
    /\ \E tn \in {"Batches", "Entries"} : \E r \in Rows(tn) :
       \E c \in {x \in EditCols(tn) : ts[tn].Headers[x + 1] \notin IndexColumns} :
       \E v \in CellValues(ts[tn], c) :
           /\ ts[tn].Records[r][c + 1] # v
           /\ Edited([ts EXCEPT ![tn].Records[r][c + 1] = v])

DropColumn ==
    /\ NoColumnDropped
    /\ calls = 0
    /\ \E tn \in {"Batches", "Entries"} : \E n \in DroppableColumns(tn) :
           ts' = [ts EXCEPT ![tn] = WithoutColumn(@, n)]
    /\ UNCHANGED <<heap, file, phase, result, edits, calls, run>>

NextColumns ==
    \/ CallFromFile
    \/ EditFieldCell
    \/ DropColumn
    \/ CallToFile

SpecColumns == Init /\ [][NextColumns]_vars



(***************************************************************************)
(* The properties.                                                         *)
(***************************************************************************)
\* The file the caller holds and the file the last ToFile call returned, as
\* values.
Original == Val(heap, file)

Returned == Val(heap, result.file)

\* The last ToFile call read the tables as they are now.
Fresh == result.kind # "none" /\ result.edits = edits

\* The tables are as FromFile returned them, for a file that is not nil.
Flattened == phase = "flat" /\ edits = 0 /\ file # NULL

\* The zero-based position of the first column named name.
Col(t, name) ==
    (CHOOSE i \in 1..Len(t.Headers) :
        t.Headers[i] = name /\ \A j \in 1..(i - 1) : t.Headers[j] # name) - 1

Cell(t, r, name) == t.Records[r][Col(t, name) + 1]

\* The index cells of every row of table t, as numbers where they are numbers.
IndexTuples(t, names) ==
    [r \in 1..Len(t.Records) |-> [k \in 1..Len(names) |-> Cell(t, r, names[k])]]

NoRepeats(s) == \A i, j \in 1..Len(s) : s[i] = s[j] => i = j

EntryCount(bs) == SumSeq([b \in 1..Len(bs) |-> Len(bs[b].p.Entries)])

\* A tree without its scalar fields: which records there are.
RECURSIVE Structure(_)
Structure(t) ==
    IF t.kind = "nil" THEN NilTree
    ELSE [kind |-> t.kind,
          p |-> [n \in DOMAIN t.p |-> [i \in 1..Len(t.p[n]) |-> Structure(t.p[n][i])]]]

\* C1 (isolation): a ToFile call, whether it returns a file or an error or
\* does not return, leaves the file FromFile was given as it was just before
\* the call: header, batches, entries and addenda, through every slice and
\* pointer.
C1_Isolation == [][calls' # calls => Val(heap', file') = Val(heap, file)]_vars

\* C1's case: the tables were edited and ToFile returned a file that differs
\* from the one FromFile was given.
C1_EditedAndRebuilt ==
    /\ Fresh /\ edits > 0 /\ result.kind = "ok"
    /\ Returned # Original

\* C9 (index invariant of flattening): in the tables FromFile returns, the
\* batches table has one row per batch and row i has batch_index i; the
\* entries table has one row per entry and the row with (b, e) carries the
\* fields of entry e of batch b; in no table do two rows carry the same
\* index tuple.
C9_IndexInvariant ==
    Flattened =>
        LET f == Original
        IN  /\ Len(ts.Batches.Records) = Len(f.p.Batches)
            /\ \A i \in 1..Len(f.p.Batches) :
                  Cell(ts.Batches, i, "batch_index") = Itoa(i - 1)
            /\ Len(ts.Entries.Records) = EntryCount(f.p.Batches)
            /\ \A b \in 1..Len(f.p.Batches) :
               \A e \in 1..Len(f.p.Batches[b].p.Entries) :
                  \E r \in 1..Len(ts.Entries.Records) :
                     LET entry == f.p.Batches[b].p.Entries[e]
                     IN  /\ Cell(ts.Entries, r, "batch_index") = Itoa(b - 1)
                         /\ Cell(ts.Entries, r, "entry_index") = Itoa(e - 1)
                         /\ Cell(ts.Entries, r, "amount") = Itoa(entry.f.Amount)
                         /\ Cell(ts.Entries, r, "transaction_code")
                               = Itoa(entry.f.TransactionCode)
                         /\ Cell(ts.Entries, r, "rdfi_identification")
                               = entry.f.RDFIIdentification
                         /\ Cell(ts.Entries, r, "trace_number") = entry.f.TraceNumber
                         /\ Cell(ts.Entries, r, "individual_name")
                               = TrimSpace(entry.f.IndividualName)
            /\ NoRepeats(IndexTuples(ts.Batches, <<"batch_index">>))
            /\ NoRepeats(IndexTuples(ts.Entries, <<"batch_index", "entry_index">>))
            /\ NoRepeats(IndexTuples(ts.Addenda,
                                     <<"batch_index", "entry_index", "addenda_index">>))
            /\ Present(ts.IATBatches) =>
                  /\ NoRepeats(IndexTuples(ts.IATBatches, <<"batch_index">>))
                  /\ NoRepeats(IndexTuples(ts.IATEntries, <<"batch_index", "entry_index">>))
                  /\ NoRepeats(IndexTuples(ts.IATAddenda,
                                 <<"batch_index", "entry_index", "addenda_index">>))

\* C9's case: a file of two batches, three entries and addenda, flattened.
C9_SeveralBatchesFlattened ==
    /\ Flattened
    /\ Len(ts.Batches.Records) = 2
    /\ Len(ts.Entries.Records) = 3
    /\ Len(ts.Addenda.Records) = 3

\* C10 (table presence): for a file that is not nil FromFile returns a
\* TableSet whose file_header table has exactly one row and whose batches,
\* entries and addenda tables are present, empty when the file has none;
\* the three IAT tables are present exactly when the file has an IAT batch.
C10_TablePresence ==
    Flattened =>
        /\ ~IsNilTS(ts)
        /\ Present(ts.FileHeader) /\ Len(ts.FileHeader.Records) = 1
        /\ Present(ts.Batches) /\ Present(ts.Entries) /\ Present(ts.Addenda)
        /\ Len(Original.p.Batches) = 0 =>
              /\ ts.Batches.Records = <<>>
              /\ ts.Entries.Records = <<>>
              /\ ts.Addenda.Records = <<>>
        /\ \A tn \in {"IATBatches", "IATEntries", "IATAddenda"} :
              Present(ts[tn]) <=> Len(Original.p.IATBatches) > 0

\* C10's case: a file with a header and no batch of either kind, flattened.
C10_EmptyFileFlattened ==
    /\ Flattened
    /\ Original.p.Batches = <<>> /\ Original.p.IATBatches = <<>>
    /\ ts.Batches.Records = <<>>
    /\ ~Present(ts.IATBatches)


\* The fields that tell one addenda variant from the others.
Discriminating(kind) ==
    CASE kind = "Addenda98" -> {"TypeCode", "ChangeCode"}
      [] kind = "Addenda99" -> {"TypeCode", "ReturnCode"}
      [] kind = "Addenda98Refused" -> {"TypeCode", "RefusedChangeCode"}
      [] kind = "Addenda99Dishonored" -> {"TypeCode", "DishonoredReturnReasonCode"}
      [] kind = "Addenda99Contested" -> {"TypeCode", "ContestedReturnCode"}
      [] OTHER -> {"TypeCode"}

\* What round-trip identity compares: the header's scalar fields, which
\* batches, entries and addenda there are, and the discriminating fields.
RoundTripFields(kind) ==
    CASE kind = "File" -> FileHeaderFields
      [] kind \in {"Batch", "IATBatch", "EntryDetail", "IATEntryDetail"} -> {}
      [] OTHER -> Discriminating(kind)

RECURSIVE Essence(_)
Essence(t) ==
    IF t.kind = "nil" THEN NilTree
    ELSE [kind |-> t.kind,
          f |-> [n \in RoundTripFields(t.kind) |-> t.f[n]],
          p |-> [n \in DOMAIN t.p |-> [i \in 1..Len(t.p[n]) |-> Essence(t.p[n][i])]]]

\* C2 (round-trip identity, as stated): for every file, ToFile on the tables
\* FromFile returned, unedited, succeeds and gives a file with the same
\* header fields, the same batches, entries and addenda, and the same
\* values in the discriminating fields of every addenda.
C2_RoundTripIdentity ==
    (Fresh /\ Flattened) =>
        /\ result.kind = "ok"
        /\ Essence(Returned) = Essence(Original)

\* The control totals, which ToFile derives.
ControlFields ==
    {"EntryAddendaCount", "EntryHash", "TotalDebitEntryDollarAmount",
     "TotalCreditEntryDollarAmount", "BatchCount", "BlockCount",
     "FileEntryAddendaCount", "FileEntryHash", "TotalDebitEntryDollarAmountInFile",
     "TotalCreditEntryDollarAmountInFile"}

RECURSIVE SansControl(_)
SansControl(t) ==
    IF t.kind = "nil" THEN NilTree
    ELSE [kind |-> t.kind,
          f |-> [n \in DOMAIN t.f \ ControlFields |-> t.f[n]],
          p |-> [n \in DOMAIN t.p |-> [i \in 1..Len(t.p[n]) |-> SansControl(t.p[n][i])]]]

\* The cells in which the entries table differs from the one FromFile gave.
EntryCellsEdited ==
    LET t0 == FromFile(Original, file).Entries
    IN  {rc \in (1..Len(t0.Records)) \X (1..Len(t0.Headers)) :
            ts.Entries.Records[rc[1]][rc[2]] # t0.Records[rc[1]][rc[2]]}

\* One cell of one row of the entries table was edited, nothing else: a
\* field column, and a number if the column holds numbers; the file is one
\* whose header File.Create accepts.
OneEntryCellEdited ==
    /\ file # NULL /\ phase = "flat" /\ edits = 1
    /\ HeaderValid(Original)
    /\ Len(ts.Entries.Records) = Len(FromFile(Original, file).Entries.Records)
    /\ [ts EXCEPT !.Entries = FromFile(Original, file).Entries] = FromFile(Original, file)
    /\ Cardinality(EntryCellsEdited) = 1
    /\ LET rc == CHOOSE x \in EntryCellsEdited : TRUE
       IN  /\ ts.Entries.Headers[rc[2]] \notin IndexColumns
           /\ ts.Entries.ColumnTypes[rc[2]] = INTEGER
                 => Atoi(ts.Entries.Records[rc[1]][rc[2]]).ok

CarriesEveryVariant(e) ==
    /\ Len(e.p.Addenda05) >= 1
    /\ \A tag \in StdVariants : Ptr(e, AddendaFieldOfTag(tag)).kind # "nil"

\* C4 (variant round-trip completeness, as stated): for an entry carrying
\* 02, one or more 05, 98, 99, 98_refused, 99_dishonored and 99_contested,
\* FromFile then ToFile with no edits preserves every field of every
\* addenda, and the addenda table holds one row per attached addenda.
C4_VariantRoundTrip ==
    (Fresh /\ Flattened) =>
        \A b \in 1..Len(Original.p.Batches) :
        \A e \in 1..Len(Original.p.Batches[b].p.Entries) :
            LET entry == Original.p.Batches[b].p.Entries[e]
            IN  CarriesEveryVariant(entry) =>
                   /\ result.kind = "ok"
                   /\ Returned.p.Batches[b].p.Entries[e].p = entry.p
                   /\ Cardinality({r \in 1..Len(ts.Addenda.Records) :
                          /\ Cell(ts.Addenda, r, "batch_index") = Itoa(b - 1)
                          /\ Cell(ts.Addenda, r, "entry_index") = Itoa(e - 1)})
                        = AddendaCountT(entry)


\* The number in an index cell; no number gives the record's st as "err".
IndexOf(t, r, name) == ReadInt(t.Records[r], Col(t, name))

\* A row of the batches table names a batch the file does not have, or a
\* row of the entries table names a batch or an entry it does not have.
RowOutOfRange ==
    /\ file # NULL /\ phase = "flat"
    /\ LET bs == Original.p.Batches
       IN  \/ \E r \in 1..Len(ts.Batches.Records) :
                LET b == IndexOf(ts.Batches, r, "batch_index")
                IN  b.st = "ok" /\ b.val \notin 0..(Len(bs) - 1)
           \/ \E r \in 1..Len(ts.Entries.Records) :
                LET b == IndexOf(ts.Entries, r, "batch_index")
                    e == IndexOf(ts.Entries, r, "entry_index")
                IN  /\ b.st = "ok" /\ e.st = "ok"
                    /\ \/ b.val \notin 0..(Len(bs) - 1)
                       \/ e.val \notin 0..(Len(bs[b.val + 1].p.Entries) - 1)

\* C5 (out-of-range rejection, as stated): when a row of the batches table
\* has a batch_index outside [0, number of batches), or a row of the entries
\* table has a batch_index or entry_index outside the file's batches or the
\* batch's entries, below 0 or at or above the length, ToFile returns an
\* error and no file.
C5_OutOfRangeRejected ==
    (Fresh /\ RowOutOfRange) => (result.kind = "err" /\ result.file = NULL)

\* C6 (all-or-nothing result, as stated): every ToFile call returns either
\* a file and no error, or an error and no file.
C6_AllOrNothing ==
    \/ result.kind = "none"
    \/ result.kind = "ok" /\ result.file # NULL
    \/ result.kind = "err" /\ result.file = NULL

\* The control totals of a batch of the returned file, as the batch holds
\* them.
HeldTotals(b) == [n \in DOMAIN BatchTotals(<<>>) |-> b.f[n]]

\* The tables with the four control-total cells of every batches row
\* overwritten.
TotalsBlanked ==
    [ts EXCEPT !.Batches.Records =
        [r \in 1..Len(@) |->
            [c \in 1..Len(@[r]) |->
                IF ts.Batches.Headers[c]
                     \in {"entry_addenda_count", "entry_hash", "total_debit", "total_credit"}
                THEN <<"0">> ELSE @[r][c]]]]

\* C7 (control totals are derived, as stated): after a successful ToFile the
\* control totals of every batch of the result and the file control equal
\* the values recomputed from the result's entries, and the four control
\* columns of the batches table have no effect on the result.
C7_ControlTotalsDerived ==
    (Fresh /\ result.kind = "ok") =>
        LET bs == Returned.p.Batches \o Returned.p.IATBatches
            derived == [b \in 1..Len(bs) |->
                          [bs[b] EXCEPT !.f = BatchTotals(bs[b].p.Entries) @@ @]]
            again == ToFile(heap, TotalsBlanked)
        IN  /\ \A b \in 1..Len(bs) : HeldTotals(bs[b]) = BatchTotals(bs[b].p.Entries)
            /\ [n \in DOMAIN FileTotals(<<>>) |-> Returned.f[n]] = FileTotals(derived)
            /\ Val(again.heap, again.file) = Returned

\* C8 (structure preservation): whatever the tables hold (rows edited,
\* added, removed, duplicated or reordered), when ToFile succeeds the result
\* has the batches and IAT batches of the original, the entries of each
\* batch, and on each entry the addenda variants of the original with as
\* many 05, 17 and 18 records.
C8_StructurePreserved ==
    result.kind = "ok" => Structure(Returned) = Structure(Original)

\* C8's case: ToFile succeeded on tables from which a row of an entry, or of
\* an addenda, had been removed.
C8_RowRemoved ==
    /\ Fresh /\ result.kind = "ok"
    /\ \/ Len(ts.Entries.Records) < EntryCount(Original.p.Batches)
       \/ Len(ts.Addenda.Records) < Len(FromFile(Original, file).Addenda.Records)


\* C11 (nil inputs): FromFile of a nil file returns a nil TableSet; ToFile on
\* a nil TableSet, or on a TableSet that holds no original file, returns an
\* error and a nil file.
C11_NilInputs ==
    /\ (phase = "flat" /\ file = NULL) => IsNilTS(ts)
    /\ (Fresh /\ (IsNilTS(ts) \/ ts.originalFile = NULL))
          => (result.kind = "err" /\ result.file = NULL)

\* C11's case: FromFile was given a nil file and ToFile was called on what it
\* returned.
C11_NilFlattenedAndRebuilt ==
    /\ phase = "flat" /\ file = NULL /\ IsNilTS(ts)
    /\ Fresh /\ result.kind = "err"



\* The rows of table t whose batch_index or entry_index is a number naming
\* no batch among bs, or no entry of the batch it names.
RowsOutside(t, bs) ==
    {r \in 1..Len(t.Records) :
        LET b == IndexOf(t, r, "batch_index")
            e == IndexOf(t, r, "entry_index")
        IN  /\ b.st = "ok" /\ e.st = "ok"
            /\ \/ b.val \notin 0..(Len(bs) - 1)
               \/ e.val \notin 0..(Len(bs[b.val + 1].p.Entries) - 1)}

\* The rows of table t with a cell of an index column that is no number.
RowsMalformed(t, names) ==
    {r \in 1..Len(t.Records) : \E n \in names : IndexOf(t, r, n).st = "err"}

\* Table t without the rows in the set gone.
WithoutRows(t, gone) ==
    [t EXCEPT !.Records =
        SelectSeq([r \in 1..Len(t.Records) |-> <<r, t.Records[r]>>],
                  LAMBDA x : x[1] \notin gone)]

DropRows(t, gone) ==
    [t EXCEPT !.Records = [k \in 1..Len(WithoutRows(t, gone).Records) |->
                              WithoutRows(t, gone).Records[k][2]]]

\* C12 (addenda rows are advisory, as stated): an addenda row whose
\* batch_index or entry_index is outside the file's batches or entries,
\* below 0 or at or above the length, is skipped: ToFile gives what it gives
\* without the row; an addenda row whose batch_index, entry_index or
\* addenda_index is no number makes ToFile return an error and no file.
C12_AddendaRowsAdvisory ==
    (Fresh /\ phase = "flat" /\ file # NULL) =>
        LET outside == RowsOutside(ts.Addenda, Original.p.Batches)
            without == ToFile(heap, [ts EXCEPT !.Addenda = DropRows(@, outside)])
        IN  /\ RowsMalformed(ts.Addenda, IndexColumns) # {}
                 => (result.kind = "err" /\ result.file = NULL)
            /\ (outside # {} /\ RowsMalformed(ts.Addenda, IndexColumns) = {})
                 => /\ result.kind = without.kind
                    /\ Returned = Val(without.heap, without.file)



\* The rows of table t whose batch_index is a number naming no batch among bs.
BatchRowsOutside(t, bs) ==
    {r \in 1..Len(t.Records) :
        LET b == IndexOf(t, r, "batch_index")
        IN  b.st = "ok" /\ b.val \notin 0..(Len(bs) - 1)}

\* C13 (IAT index rules, as stated): a row of the iat_batches table whose
\* batch_index is outside the IAT batches, or a row of the iat_entries table
\* whose (batch_index, entry_index) is out of range, makes ToFile return an
\* error and no file, as for the batches and entries tables; rows of the
\* iat_addenda table with out-of-range batch or entry indices are skipped.
C13_IATIndexRules ==
    (Fresh /\ phase = "flat" /\ file # NULL /\ Present(ts.IATBatches)) =>
        LET ibs     == Original.p.IATBatches
            fatal   == \/ BatchRowsOutside(ts.IATBatches, ibs) # {}
                       \/ RowsOutside(ts.IATEntries, ibs) # {}
            outside == RowsOutside(ts.IATAddenda, ibs)
            without == ToFile(heap, [ts EXCEPT !.IATAddenda = DropRows(@, outside)])
        IN  /\ fatal => (result.kind = "err" /\ result.file = NULL)
            /\ outside # {}
                 => /\ result.kind = without.kind
                    /\ Returned = Val(without.heap, without.file)



\* The index columns of each table.
IndexColumnsOf(tn) ==
    CASE tn \in {"Batches", "IATBatches"} -> {"batch_index"}
      [] tn \in {"Entries", "IATEntries"} -> {"batch_index", "entry_index"}
      [] tn \in {"Addenda", "IATAddenda"} -> IndexColumns
      [] OTHER -> {}

\* C14 (malformed index is fatal in every table, as stated): a value that is
\* no number in an index column of a row of the batches, entries, addenda,
\* iat_batches, iat_entries or iat_addenda table, whatever the row's
\* addenda_type, makes ToFile return an error and no file.
C14_MalformedIndexFatal ==
    (Fresh /\ phase = "flat" /\ file # NULL) =>
        \A tn \in TableNames :
            (Present(ts[tn]) /\ RowsMalformed(ts[tn], IndexColumnsOf(tn)) # {})
                => (result.kind = "err" /\ result.file = NULL)



\* The columns that hold an index, a count or an amount.
NumberColumns ==
    IndexColumns \cup
        {"entry_addenda_count", "total_debit", "total_credit", "amount",
         "addenda_records", "foreign_payment_amount"}

\* The column types FromFile gives each table, over the files of every shape:
\* the pairs <<table name, column types>>.
ShapeColumnTypes ==
    UNION {LET made == FromFile(MkFile(s), 1)
           IN  {<<tn, made[tn].ColumnTypes>> : tn \in {x \in TableNames : Present(made[x])}}
           : s \in Shapes}

\* C15 (table shape): in every table FromFile produces the column types are
\* as many as the column names and every row has as many cells; the types
\* are those of the same table for every other file; index, count and
\* amount columns are integer columns, and a cell of an integer column is
\* a numeral or empty.
C15_TableShape ==
    Flattened =>
        \A tn \in TableNames :
            Present(ts[tn]) =>
                LET t == ts[tn]
                IN  /\ Len(t.ColumnTypes) = Len(t.Headers)
                    /\ \A r \in 1..Len(t.Records) : Len(t.Records[r]) = Len(t.Headers)
                    /\ \A p \in ShapeColumnTypes : p[1] = tn => p[2] = t.ColumnTypes
                    /\ \A c \in 1..Len(t.Headers) :
                          /\ t.ColumnTypes[c] \in {TEXT, INTEGER}
                          /\ t.Headers[c] \in NumberColumns => t.ColumnTypes[c] = INTEGER
                          /\ t.ColumnTypes[c] = INTEGER =>
                                \A r \in 1..Len(t.Records) :
                                    t.Records[r][c] = <<>> \/ Atoi(t.Records[r][c]).ok

\* C15's case: a flattened file with rows in the addenda table and in the
\* three IAT tables.
C15_AllTablesFlattened ==
    /\ Flattened
    /\ Len(ts.Addenda.Records) > 1
    /\ Present(ts.IATAddenda) /\ Len(ts.IATAddenda.Records) > 1


\* C16 (pure projection): a step that is not a ToFile call, that is FromFile,
\* an edit of a table cell or the replacement of a table by one with a row
\* removed, repeated or moved, leaves the caller's file as it was, and every
\* record of the heap with it.
C16_PureProjection ==
    [][calls' = calls => heap' = heap /\ file' = file /\ Original' = Original]_vars

\* C16's case: a file was flattened and a table edited, ToFile not yet called.
C16_FlattenedAndEdited ==
    /\ phase = "flat" /\ file # NULL
    /\ edits > 0 /\ calls = 0
    /\ ts.originalFile = file


\* The addresses of the records reachable from address a.
RECURSIVE Reach(_, _)
Reach(h, a) ==
    IF a = NULL THEN {}
    ELSE {a} \cup UNION {UNION {Reach(h, h[a].p[n][i]) : i \in 1..Len(h[a].p[n])}
                         : n \in DOMAIN h[a].p}

\* Goroutine i has returned from its ToFile call.
Returned_(i) == run[i].pc = Returning

\* C17 (concurrent reconstruction): with two ToFile calls on one TableSet
\* interleaved step by step, the file of each call, from its copy on, shares
\* no record with the file of the other call or with the original; a call
\* that has ended ended as a call run alone on the same tables ends, with an
\* equal file when it returns one; and no step of either call changes the
\* original file.
C17_ConcurrentToFile ==
    /\ [](\A i \in Threads :
            /\ Reach(heap, run[i].fa) \cap Reach(heap, file) = {}
            /\ \A j \in Threads \ {i} :
                  Reach(heap, run[i].fa) \cap Reach(heap, run[j].fa) = {}
            /\ Returned_(i) =>
                  \E alone \in {ToFile(heap, ts)} :
                     /\ run[i].st = alone.kind
                     /\ run[i].st = "ok" =>
                           Val(heap, run[i].fa) = Val(alone.heap, alone.file))
    /\ [][run' # run => Val(heap', file') = Val(heap, file)]_vars

\* C17's case: on edited tables the second goroutine made its copy first and
\* is between two of its steps when the first returns a file that differs
\* from the original.
C17_ReturnedWhileOtherRuns ==
    /\ edits > 0
    /\ Returned_(1) /\ run[1].st = "ok"
    /\ run[2].pc \in 2..Len(TableOrder)
    /\ run[2].fa < run[1].fa
    /\ Val(heap, run[1].fa) # Original


ModifiedFields == {"ImmediateOriginName", "CompanyName", "IndividualName"}

\* Every field that holds the caller's value in the tree o holds it in the
\* tree r, record by record.
RECURSIVE Reflected(_, _)
Reflected(o, r) ==
    /\ \A n \in DOMAIN o.f \cap ModifiedFields : o.f[n] = Modified => r.f[n] = Modified
    /\ \A n \in DOMAIN o.p : \A i \in 1..Len(o.p[n]) :
          o.p[n][i].kind # "nil" => Reflected(o.p[n][i], r.p[n][i])

\* C18 (the TableSet holds a reference, as stated): what the caller wrote
\* into the file after FromFile is in the file ToFile returns.
C18_ChangesReflected ==
    result.kind = "ok" => Reflected(Original, Returned)


\* The fields of the file header that have a column, as the tree f holds them.
HeaderOf(f) == [n \in FileHeaderFields |-> f.f[n]]

\* C19 (file-header table): when the file_header table has a row, ToFile ends
\* as it does with the first row alone and returns the same file, whose
\* header fields are the cells of that row, column by column; when it has no
\* row, ToFile ends as it does without the table, and the file it returns has
\* the header fields of the original.
C19_FileHeaderTable ==
    (Fresh /\ phase = "flat" /\ file # NULL) =>
        LET t == ts.FileHeader
        IN  IF Len(t.Records) >= 1
            THEN /\ \E first \in {ToFile(heap, [ts EXCEPT !.FileHeader.Records = <<t.Records[1]>>])} :
                       /\ result.kind = first.kind
                       /\ result.kind = "ok" => Returned = Val(first.heap, first.file)
                 /\ result.kind = "ok" =>
                       \A k \in 1..Len(FileHeaderFieldsByColumn) :
                           Returned.f[FileHeaderFieldsByColumn[k][2]]
                              = Cell(t, 1, FileHeaderFieldsByColumn[k][1])
            ELSE /\ result.kind = ToFile(heap, [ts EXCEPT !.FileHeader = NoTable]).kind
                 /\ result.kind = "ok" => HeaderOf(Returned) = HeaderOf(Original)

\* C19's case: the table has two rows that differ, and the file ToFile
\* returned has a header that is not the original one.
C19_TwoHeaderRows ==
    /\ Fresh /\ result.kind = "ok"
    /\ Len(ts.FileHeader.Records) = 2
    /\ ts.FileHeader.Records[1] # ts.FileHeader.Records[2]
    /\ HeaderOf(Returned) # HeaderOf(Original)


\* Table t with the cells of column payment_related_information emptied.
SansPaymentInformation(t) ==
    [t EXCEPT !.Records =
        [r \in 1..Len(t.Records) |->
            [t.Records[r] EXCEPT ![Col(t, "payment_related_information") + 1] = <<>>]]]

\* The tables are as FromFile made them, but for cells of the column
\* payment_related_information of the addenda table.
OnlyPaymentInformationEdited ==
    /\ phase = "flat" /\ file # NULL
    /\ \E made \in {FromFile(Original, file)} :
          /\ \A tn \in TableNames \ {"Addenda"} : ts[tn] = made[tn]
          /\ SansPaymentInformation(ts.Addenda) = SansPaymentInformation(made.Addenda)

\* The 05 rows of the addenda table.
Rows05 == {r \in 1..Len(ts.Addenda.Records) : Cell(ts.Addenda, r, "addenda_type") = <<"0", "5">>}

\* C20 (decoding the repeatable variant, as stated): for every 05 row that
\* FromFile produced, the Addenda05 occurrence at addenda_index less the
\* number of 02 addenda of the entry holds, in the file ToFile returns, the
\* payment_related_information of that row, edited or not.
C20_RepeatableDecoded ==
    (Fresh /\ OnlyPaymentInformationEdited /\ result.kind = "ok") =>
        \A r \in Rows05 :
            LET b     == IndexOf(ts.Addenda, r, "batch_index").val
                e     == IndexOf(ts.Addenda, r, "entry_index").val
                a     == IndexOf(ts.Addenda, r, "addenda_index").val
                entry == Original.p.Batches[b + 1].p.Entries[e + 1]
                k     == a - (IF Ptr(entry, "Addenda02").kind # "nil" THEN 1 ELSE 0)
            IN  Returned.p.Batches[b + 1].p.Entries[e + 1].p.Addenda05[k + 1]
                        .f.PaymentRelatedInformation
                   = Cell(ts.Addenda, r, "payment_related_information")


\* Table t with the cells of column foreign_correspondent_bank_name emptied.
SansBankName(t) ==
    [t EXCEPT !.Records =
        [r \in 1..Len(t.Records) |->
            [t.Records[r] EXCEPT ![Col(t, "foreign_correspondent_bank_name") + 1] = <<>>]]]

\* The tables are as FromFile made them, but for cells of the columns
\* payment_related_information and foreign_correspondent_bank_name of the
\* IAT addenda table.
OnlyIATRepeatableFieldsEdited ==
    /\ phase = "flat" /\ file # NULL
    /\ \E made \in {FromFile(Original, file)} :
          /\ Present(made.IATAddenda)
          /\ \A tn \in TableNames \ {"IATAddenda"} : ts[tn] = made[tn]
          /\ SansBankName(SansPaymentInformation(ts.IATAddenda))
                = SansBankName(SansPaymentInformation(made.IATAddenda))

\* The rows of the IAT addenda table with the tag tag.
IATRowsOf(tag) ==
    {r \in 1..Len(ts.IATAddenda.Records) : Cell(ts.IATAddenda, r, "addenda_type") = tag}

\* The IAT entry of the tree f that row r of the IAT addenda table names.
IATEntryOfRow(f, r) ==
    f.p.IATBatches[IndexOf(ts.IATAddenda, r, "batch_index").val + 1]
     .p.Entries[IndexOf(ts.IATAddenda, r, "entry_index").val + 1]

\* The number of the addenda 10 to 16 the entry tree e carries.
Singles10To16(e) ==
    Cardinality({k \in 1..Len(IATSingles) : Ptr(e, "Addenda" \o IATSingles[k]).kind # "nil"})

StdTraversal ==
    <<<<"02", "Addenda02">>, <<"05", "Addenda05">>, <<"98", "Addenda98">>,
      <<"99", "Addenda99">>, <<"98_refused", "Addenda98Refused">>,
      <<"99_dishonored", "Addenda99Dishonored">>,
      <<"99_contested", "Addenda99Contested">>>>

IATTraversal ==
    <<<<"10", "Addenda10">>, <<"11", "Addenda11">>, <<"12", "Addenda12">>,
      <<"13", "Addenda13">>, <<"14", "Addenda14">>, <<"15", "Addenda15">>,
      <<"16", "Addenda16">>, <<"17", "Addenda17">>, <<"18", "Addenda18">>,
      <<"98", "Addenda98">>, <<"99", "Addenda99">>>>

\* The tag cells of the addenda the entry tree e carries, in traversal order.
TagsCarried(e, traversal) ==
    Flatten([k \in 1..Len(traversal) |->
        LET held == SelectSeq(e.p[traversal[k][2]], LAMBDA a : a.kind # "nil")
        IN  [i \in 1..Len(held) |-> TagCell(traversal[k][1])]])

\* The rows of table t for entry e of batch b (zero-based), in table order.
RowsOfEntry(t, b, e) ==
    SelectSeq(t.Records,
              LAMBDA rec : /\ rec[Col(t, "batch_index") + 1] = Itoa(b)
                           /\ rec[Col(t, "entry_index") + 1] = Itoa(e))

\* The rows of table t for each entry of the batches bs number from 0 with
\* no gap and carry the tags of the entry's addenda in traversal order.
RunningCounter(t, bs, traversal) ==
    \A b \in 1..Len(bs) : \A e \in 1..Len(bs[b].p.Entries) :
        LET rows == RowsOfEntry(t, b - 1, e - 1)
            tags == TagsCarried(bs[b].p.Entries[e], traversal)
        IN  /\ Len(rows) = Len(tags)
            /\ Len(rows) = AddendaCountT(bs[b].p.Entries[e])
            /\ \A i \in 1..Len(rows) :
                  /\ rows[i][Col(t, "addenda_index") + 1] = Itoa(i - 1)
                  /\ rows[i][Col(t, "addenda_type") + 1] = tags[i]

\* C22 (addenda_index is a running counter per entry): in the addenda table
\* and the IAT addenda table FromFile returns, the rows of every entry carry
\* addenda_index 0, 1, ..., n-1 for its n addenda, in the fixed traversal
\* order of the tags, and the 05 rows follow the order of the occurrences.
C22_RunningCounter ==
    Flattened =>
        /\ RunningCounter(ts.Addenda, Original.p.Batches, StdTraversal)
        /\ Present(ts.IATAddenda) =>
              RunningCounter(ts.IATAddenda, Original.p.IATBatches, IATTraversal)
        /\ ~Present(ts.IATAddenda) => Original.p.IATBatches = <<>>
        /\ \A b \in 1..Len(Original.p.Batches) :
           \A e \in 1..Len(Original.p.Batches[b].p.Entries) :
              LET entry == Original.p.Batches[b].p.Entries[e]
                  rows  == RowsOfEntry(ts.Addenda, b - 1, e - 1)
                  pre   == IF Ptr(entry, "Addenda02").kind # "nil" THEN 1 ELSE 0
              IN  \A k \in 1..Len(entry.p.Addenda05) :
                     rows[pre + k][Col(ts.Addenda, "payment_related_information") + 1]
                        = TrimSpace(entry.p.Addenda05[k].f.PaymentRelatedInformation)

\* C22's case: a flattened file with an entry carrying every standard
\* variant and two 05 addenda, and an IAT entry with two 17 and two 18.
C22_ManyAddendaFlattened ==
    /\ Flattened
    /\ \E b \in 1..Len(Original.p.Batches) : \E e \in 1..Len(Original.p.Batches[b].p.Entries) :
          /\ CarriesEveryVariant(Original.p.Batches[b].p.Entries[e])
          /\ Len(Original.p.Batches[b].p.Entries[e].p.Addenda05) = 2
    /\ \E b \in 1..Len(Original.p.IATBatches) :
          /\ Len(Original.p.IATBatches[b].p.Entries[1].p.Addenda17) = 2
          /\ Len(Original.p.IATBatches[b].p.Entries[1].p.Addenda18) = 2


\* The columns (zero-based) that row rec of an addenda table fills from a
\* field of the addenda it stands for, with the index columns and the tag.
ColumnsOfVariant(rec, iat) ==
    LET cells == IF iat THEN IATAddendaCells(IATTagOfCell(rec[4]))
                 ELSE AddendaCells(TagOfCell(rec[4]))
    IN  {0, 1, 2, 3} \cup {cells[k][1] : k \in {j \in 1..Len(cells) : cells[j][3] # "zero"}}

\* Every cell of table t outside the columns of its row's variant is empty.
ForeignColumnsEmpty(t, iat) ==
    \A r \in 1..Len(t.Records) : \A c \in 0..(Len(t.Headers) - 1) :
        c \notin ColumnsOfVariant(t.Records[r], iat) => t.Records[r][c + 1] = <<>>

\* C23 (encoding leaves foreign columns empty, as stated): in every row of
\* the addenda table and of the IAT addenda table FromFile returns, a column
\* that is no index column, not the tag and no field of the row's variant
\* holds the empty string.
C23_ForeignColumnsEmpty ==
    Flattened =>
        /\ ForeignColumnsEmpty(ts.Addenda, FALSE)
        /\ Present(ts.IATAddenda) => ForeignColumnsEmpty(ts.IATAddenda, TRUE)


\* The names of the columns of the variant of row rec of table t.
NamesOfVariant(t, rec, iat) == {t.Headers[c + 1] : c \in ColumnsOfVariant(rec, iat)}

\* Table t is the table made but for cells in columns whose name is no
\* column name of their row's variant.
OnlyForeignCellsEdited(t, made, iat) ==
    /\ t.Headers = made.Headers
    /\ Len(t.Records) = Len(made.Records)
    /\ \A r \in 1..Len(t.Records) :
          /\ Len(t.Records[r]) = Len(made.Records[r])
          /\ \A c \in 1..Len(t.Headers) :
                t.Records[r][c] # made.Records[r][c]
                   => t.Headers[c] \notin NamesOfVariant(made, made.Records[r], iat)

\* The caller has edited a cell of an addenda row in a column foreign to the
\* row's variant, and nothing else.
ForeignCellEdited ==
    /\ phase = "flat" /\ file # NULL /\ edits > 0
    /\ \E made \in {FromFile(Original, file)} :
          /\ \A tn \in TableNames \ {"Addenda", "IATAddenda"} : ts[tn] = made[tn]
          /\ OnlyForeignCellsEdited(ts.Addenda, made.Addenda, FALSE)
          /\ Present(made.IATAddenda) =>
                OnlyForeignCellsEdited(ts.IATAddenda, made.IATAddenda, TRUE)

FieldOfColumn(n) ==
    CASE n = "company_name" -> "CompanyName"
      [] n = "service_class_code" -> "ServiceClassCode"
      [] n = "individual_name" -> "IndividualName"
      [] n = "amount" -> "Amount"

\* The records of the tree f that table tn has a row for, as <<b, e>>, with
\* e = 0 for a batch, and the record each names.
RecordsOf(f, tn) ==
    IF tn = "Batches" THEN {<<b, 0>> : b \in 1..Len(f.p.Batches)}
    ELSE UNION {{<<b, e>> : e \in 1..Len(f.p.Batches[b].p.Entries)}
                : b \in 1..Len(f.p.Batches)}

RecordAt(f, at) ==
    IF at[2] = 0 THEN f.p.Batches[at[1]] ELSE f.p.Batches[at[1]].p.Entries[at[2]]

\* The row of table tn for the record at.
RowFor(tn, at) ==
    CHOOSE r \in 1..Len(ts[tn].Records) :
        /\ Cell(ts[tn], r, "batch_index") = Itoa(at[1] - 1)
        /\ tn = "Entries" => Cell(ts[tn], r, "entry_index") = Itoa(at[2] - 1)

\* C25 (absent columns are left untouched): when the batches or the entries
\* table lacks a field column, ToFile ends as it does on the tables FromFile
\* made; when it returns a file, the field of the absent column has the
\* original's value in every batch or entry, and the text columns that are
\* present have set their fields from the cell found by name.
C25_AbsentColumnsUntouched ==
    (Fresh /\ phase = "flat" /\ file # NULL) =>
        \A tn \in {"Batches", "Entries"} : \A n \in DroppableColumns(tn) :
            n \notin Range(ts[tn].Headers) =>
                /\ result.kind = ToFile(heap, FromFile(Original, file)).kind
                /\ result.kind = "ok" =>
                      \A at \in RecordsOf(Original, tn) :
                          /\ RecordAt(Returned, at).f[FieldOfColumn(n)]
                                = RecordAt(Original, at).f[FieldOfColumn(n)]
                          /\ \A p \in {"company_name", "individual_name"}
                                         \cap Range(ts[tn].Headers) :
                                RecordAt(Returned, at).f[FieldOfColumn(p)]
                                   = Cell(ts[tn], RowFor(tn, at), p)

\* C25's case: the batches table lacks service_class_code, a cell of its
\* column company_name was edited, and ToFile returned a file.
C25_ColumnDroppedAndRebuilt ==
    /\ Fresh /\ result.kind = "ok" /\ edits > 0
    /\ "service_class_code" \notin Range(ts.Batches.Headers)
    /\ \E r \in 1..Len(ts.Batches.Records) : Cell(ts.Batches, r, "company_name") = <<"x">>


\* The TableSet t cut after row j of its k-th table in the order of ToFile:
\* the earlier tables whole, the later ones absent.
Truncated(t, k, j) ==
    [tn \in DOMAIN t |->
        IF tn = "originalFile" THEN t.originalFile
        ELSE LET at == CHOOSE i \in 1..Len(TableOrder) : TableOrder[i] = tn
             IN  IF at < k THEN t[tn]
                 ELSE IF at = k /\ Present(t[tn])
                 THEN [t[tn] EXCEPT !.Records = SubSeq(@, 1, j)]
                 ELSE NoTable]

\* A copy of the original file of t with the tables of t applied in order
\* and no control recalculated: [heap, st, fa].
Applied(h, t) ==
    LET c == DeepCopy(h, t.originalFile)
        after[k \in 0..Len(TableOrder)] ==
            IF k = 0 THEN [heap |-> c.heap, st |-> "ok", fa |-> c.addr]
            ELSE LET m == after[k - 1]
                 IN  ApplyTable(m, t[TableOrder[k]], m.fa, TableOrder[k])
    IN  after[Len(TableOrder)]

\* The file a failed ToFile call was working on: the last record of the heap.
Abandoned == Val(heap, Len(heap))

C27_ColumnNamesUnique ==
    Flattened =>
        \A tn \in TableNames :
            Present(ts[tn]) =>
                /\ NoRepeats(ts[tn].Headers)
                /\ \A r \in 1..Len(ts[tn].Records) : \A c \in 1..Len(ts[tn].Headers) :
                      ts[tn].Records[r][HeaderIndex(ts[tn].Headers)[ts[tn].Headers[c]] + 1]
                         = ts[tn].Records[r][c]


\* The integer columns of each table that set a field, and the field each sets.
IntFieldColumns(tn) ==
    CASE tn = "Batches" -> {"service_class_code", "originator_status_code", "batch_number"}
      [] tn = "Entries" -> {"transaction_code", "amount", "addenda_record_indicator"}
      [] tn = "Addenda" -> {"sequence_number", "entry_detail_sequence_number"}

FieldOfIntColumn(n) ==
    CASE n = "service_class_code" -> "ServiceClassCode"
      [] n = "originator_status_code" -> "OriginatorStatusCode"
      [] n = "batch_number" -> "BatchNumber"
      [] n = "transaction_code" -> "TransactionCode"
      [] n = "amount" -> "Amount"
      [] n = "addenda_record_indicator" -> "AddendaRecordIndicator"
      [] n = "sequence_number" -> "SequenceNumber"
      [] n = "entry_detail_sequence_number" -> "EntryDetailSequenceNumber"

\* The tables are as FromFile made them but for the cell of row r of table tn
\* in the integer field column n, which holds no number; an addenda row is
\* an 05 row.
NonNumericAt(tn, r, n) ==
    /\ n \in Range(ts[tn].Headers)
    /\ ~Atoi(Cell(ts[tn], r, n)).ok
    /\ tn = "Addenda" => Cell(ts.Addenda, r, "addenda_type") = <<"0", "5">>
    /\ \E made \in {FromFile(Original, file)} :
          /\ Present(made[tn]) /\ r <= Len(made[tn].Records)
          /\ ts = [made EXCEPT ![tn].Records[r][Col(made[tn], n) + 1] = Cell(ts[tn], r, n)]

\* The values of field fld over the records table tn has rows for: the batch
\* headers, the entries, or the Addenda05 of every entry.
FieldValues(f, tn, fld) ==
    IF tn = "Addenda"
    THEN [at \in RecordsOf(f, "Entries") |->
             [k \in 1..Len(RecordAt(f, at).p.Addenda05) |->
                 IF RecordAt(f, at).p.Addenda05[k] = NilTree THEN NilTree
                 ELSE RecordAt(f, at).p.Addenda05[k].f[fld]]]
    ELSE [at \in RecordsOf(f, tn) |-> RecordAt(f, at).f[fld]]

\* The same outcome of two ToFile calls: the same kind, and equal files.
SameOutcome(a, b) ==
    /\ a.kind = b.kind
    /\ a.kind = "ok" => Val(a.heap, a.file) = Val(b.heap, b.file)

\* C28 (non-numeric integer cells are ignored): when one cell of an integer
\* field column of a batch row, an entry row or an 05 addenda row holds no
\* number, ToFile ends as it does on the tables FromFile made and returns an
\* equal file, the field of that column has the original's value in every
\* record, and a text cell of the same row edited as well is applied as it
\* is without the non-numeric cell.
C28_NonNumericIgnored ==
    (Fresh /\ phase = "flat" /\ file # NULL) =>
        \A tn \in {"Batches", "Entries", "Addenda"} : \A n \in IntFieldColumns(tn) :
        \A r \in 1..Len(ts[tn].Records) :
            NonNumericAt(tn, r, n) =>
                \E made \in {FromFile(Original, file)} :
                    /\ SameOutcome([heap |-> heap, kind |-> result.kind, file |-> result.file],
                                   ToFile(heap, made))
                    /\ result.kind = "ok" =>
                          FieldValues(Returned, tn, FieldOfIntColumn(n))
                             = FieldValues(Original, tn, FieldOfIntColumn(n))
                    /\ \A c \in EditCols(tn) :
                          (/\ ts[tn].ColumnTypes[c + 1] = TEXT
                           /\ ts[tn].Headers[c + 1] \notin IndexColumns) =>
                              SameOutcome(
                                  ToFile(heap, [ts EXCEPT ![tn].Records[r][c + 1] = <<"y">>]),
                                  ToFile(heap, [made EXCEPT ![tn].Records[r][c + 1] = <<"y">>]))

\* C28's case: the amount cell of an entry row holds "x" and ToFile returned
\* a file.
C28_NonNumericCellRebuilt ==
    /\ Fresh /\ phase = "flat" /\ file # NULL /\ result.kind = "ok"
    /\ \E r \in 1..Len(ts.Entries.Records) :
          /\ NonNumericAt("Entries", r, "amount")
          /\ Cell(ts.Entries, r, "amount") = <<"x">>


\* A ToFile that hands out the file of the last call again when no table was
\* edited since.
RepeatToFileCached ==
    /\ phase \in {"flat", "made"}
    /\ calls < MaxRepeats
    /\ IF result.kind = "ok" /\ result.edits = edits
       THEN UNCHANGED <<heap, result>>
       ELSE \E r \in {ToFile(heap, ts)} :
               /\ heap' = r.heap
               /\ result' = [kind |-> r.kind, file |-> r.file, edits |-> edits]
    /\ calls' = calls + 1
    /\ UNCHANGED <<file, ts, phase, edits, run>>

\* ToFile, called up to MaxRepeats times on the one TableSet.
RepeatToFile ==
    /\ phase \in {"flat", "made"}
    /\ calls < MaxRepeats
    /\ \E r \in {ToFile(heap, ts)} :
           /\ heap' = r.heap
           /\ result' = [kind |-> r.kind, file |-> r.file, edits |-> edits]
    /\ calls' = calls + 1
    /\ UNCHANGED <<file, ts, phase, edits, run>>

NextRepeat ==
    \/ CallFromFile
    \/ NewTableSet
    \/ EditCell
    \/ RepeatToFile

SpecRepeat == Init /\ [][NextRepeat]_vars

\* C29 (ToFile is repeatable): a ToFile call changes no table and not the
\* original file; a call that follows another with no edit in between ends
\* as that one did, and when both return a file the two files are distinct
\* objects that share no record and are equal field for field, the earlier
\* one unchanged.
C29_Repeatable ==
    [][calls' # calls =>
        /\ ts' = ts /\ file' = file /\ Val(heap', file) = Val(heap, file)
        /\ (result.kind # "none" /\ result.edits = edits) =>
              /\ result'.kind = result.kind
              /\ result.kind = "ok" =>
                    /\ result'.file # result.file
                    /\ Reach(heap', result'.file) \cap Reach(heap', result.file) = {}
                    /\ Val(heap', result'.file) = Val(heap, result.file)
                    /\ Val(heap', result.file) = Val(heap, result.file)]_vars

\* C29's case: after an edit, two calls have each returned a file: the heap
\* holds the file of the earlier call next to the file of the last one.
C29_CalledTwice ==
    /\ calls = 2 /\ edits = 1 /\ Fresh /\ result.kind = "ok"
    /\ \E a \in 1..Len(heap) :
          /\ a \notin {file, result.file}
          /\ heap[a].kind = heap[file].kind
          /\ Val(heap, a) = Returned


\* The tags a caller may write into addenda_type: every tag of the table,
\* a tag of no table and the empty cell.
TagValues(tn) ==
    {TagCell(tag) : tag \in IF tn = "Addenda" THEN StdVariants \cup {"05"} ELSE IATTags}
        \cup {<<"x">>, <<>>}

\* The text columns of an addenda table a caller rewrites along with the tag.
RetagCols(tn) == {c \in EditCols(tn) : c >= 4}

\* The caller rewrites one row of an addenda table: a tag, and with it one
\* text cell or none.
RetagRow ==
    \E tn \in {"Addenda", "IATAddenda"} : \E r \in Rows(tn) : \E v \in TagValues(tn) :
        /\ ts[tn].Records[r][4] # v
        /\ \/ Edited([ts EXCEPT ![tn].Records[r][4] = v])
           \/ \E c \in RetagCols(tn) :
                 Edited([ts EXCEPT ![tn].Records[r][4] = v,
                                   ![tn].Records[r][c + 1] = <<"y">>])

NextTag ==
    \/ CallFromFile
    \/ RetagRow
    \/ CallToFile

SpecTag == Init /\ [][NextTag]_vars

\* The entry of the original that row r of addenda table tn names, when its
\* batch_index and entry_index resolve; NilTree when they do not.
EntryNamed(tn, r) ==
    LET b  == Atoi(Cell(ts[tn], r, "batch_index"))
        e  == Atoi(Cell(ts[tn], r, "entry_index"))
        bs == IF tn = "Addenda" THEN Original.p.Batches ELSE Original.p.IATBatches
    IN  IF b.ok /\ e.ok /\ b.val >= 0 /\ b.val < Len(bs)
           /\ e.val >= 0 /\ e.val < Len(bs[b.val + 1].p.Entries)
        THEN bs[b.val + 1].p.Entries[e.val + 1]
        ELSE NilTree

\* The entry carries an addenda in its field fld.
Carries(entry, fld) == \E k \in 1..Len(entry.p[fld]) : entry.p[fld][k] # NilTree

\* Row r of addenda table tn names an entry with its batch_index and
\* entry_index, its addenda_index is a number, and its tag is no tag of the
\* table or the tag of a variant the entry does not carry.
Mismatched(tn, r) ==
    /\ EntryNamed(tn, r) # NilTree
    /\ Atoi(Cell(ts[tn], r, "addenda_index")).ok
    /\ \A tag \in IF tn = "Addenda" THEN StdVariants \cup {"05"} ELSE IATTags :
          TagCell(tag) = Cell(ts[tn], r, "addenda_type") =>
              ~Carries(EntryNamed(tn, r),
                       IF tn = "Addenda" /\ tag # "05" THEN AddendaFieldOfTag(tag)
                       ELSE "Addenda" \o tag)

\* C30 (a mismatched tag fails silently): when a row of the addenda table or
\* the IAT addenda table names an entry and carries a tag that is no tag of
\* the table, or the tag of a variant the entry does not carry, ToFile ends
\* as it does on the tables without that row and returns an equal file.
C30_MismatchedTagSilent ==
    (Fresh /\ phase = "flat" /\ file # NULL) =>
        \A tn \in {"Addenda", "IATAddenda"} :
            Present(ts[tn]) =>
                \A r \in 1..Len(ts[tn].Records) :
                    Mismatched(tn, r) =>
                        SameOutcome([heap |-> heap, kind |-> result.kind, file |-> result.file],
                                    ToFile(heap, [ts EXCEPT ![tn].Records = RemoveAt(@, r)]))

\* C30's case: an addenda row with an edited text cell carries a tag of no
\* table, and ToFile returned a file.
C30_UnknownTagRebuilt ==
    /\ Fresh /\ phase = "flat" /\ file # NULL /\ result.kind = "ok"
    /\ \E r \in 1..Len(ts.Addenda.Records) :
          /\ Mismatched("Addenda", r)
          /\ Cell(ts.Addenda, r, "addenda_type") = <<"x">>
          /\ Cell(ts.Addenda, r, "payment_related_information") = <<"y">>

====
